---- MODULE Spec2Model ----
(***************************************************************************)
(* A state-machine model of flatui's FontManager (src/src/font_manager.cpp):*)
(* the glyph atlas cache, the deduplicated FontBuffer map with its         *)
(* reference counts, UV re-resolution and the render-pass coordinator.     *)
(*                                                                         *)
(* Every public operation is one atomic action (the code is single         *)
(* threaded and synchronous).  The operations are written as operators     *)
(* over a record `m` holding the manager's fields, so that an operation    *)
(* that calls another (GetBuffer -> CreateBuffer -> UpdateUV ->            *)
(* GetCachedEntry, GetBuffer -> FlushAndUpdate -> UpdatePass) is composed  *)
(* of the callee's whole effect.                                           *)
(*                                                                         *)
(* GlyphCache, GlyphCacheRow's reference set, FontBuffer's accessors and   *)
(* FlushAndUpdate live in headers; they are modelled from their contract.  *)
(***************************************************************************)
EXTENDS Integers, Sequences, FiniteSets, TLC

\* ---------------------------------------------------------------- bounds
\* The cache revision is a counter; operations that would push it past
\* MaxRevision are not taken.
MaxRevision == 5
\* current_pass_ is incremented by every subpass; capped in the guards.
MaxPass == 2
\* Cap of a buffer's reference count.
MaxRefCount == 2
\* Glyph entries that fit into one atlas slice, and the number of slices.
SliceCapacity == 1
MaxSlices == 2
\* Longest break-class buffer a WordEnumerator is stepped over on its own, and
\* the number of Advance calls made on one enumerator.
MaxBufferLen == 3
MaxAdvances == 5
\* Bytes of memory behind the text of a request that the model keeps.
MaxPastText == 2
\* Longest text the shaping buffer holds when GetTexture is called.
MaxShaped == 4

\* ------------------------------------------------------------- constants
\* The pass value of the terminal Render pass.
kRenderPass == -1
\* Units of a glyph advance per pixel, the height of a line as a multiple of
\* the font size, and kInvalidSliceIndex.
kFreeTypeUnit == 64
line_height_ == 1
kInvalidSliceIndex == -1
\* Vertices and indices of the quad of one code point.
kVerticesPerCodePoint == 4
kIndices == <<0, 1, 2, 1, 3, 2>>
\* TextLayoutDirection.
kTextLayoutDirectionLTR == "LTR"
kTextLayoutDirectionRTL == "RTL"
\* nullptr, as a FontBuffer* and as a GlyphCacheEntry*.
NoBuffer == 0
NoEntry == 0
\* The value CreateBuffer's model returns when the call never returns.
Crashed == -1
\* nullptr as a FontTexture*.
NoTexture == <<>>
\* No byte behind a text can be read: the read of one ends the process.
Unmapped == <<>>

\* ----------------------------------------------------------------- inputs
\* The layout requests (FontBufferParameters + text) the callers make.
\* A text is a sequence of one-byte characters.  Characters 1 .. 4 shape to
\* the glyph of that id, Space to a glyph without a bitmap, Marker (a joiner)
\* and Newline to glyph id 0, the layout-only marker.
Marker == 0
Space == 5
Newline == 6

\* SingleLineParams are requests for one line of text; LayoutParams are
\* multi-line requests with a target size (in pixels, 0: not set).
SingleLineParams == {"A", "B", "C"}
LayoutParams == {"D", "E", "F", "G", "H", "I", "J"}
\* FormatParams are requests with an alignment, a justification, or carets
\* in a single line; "Q" is a multi-line request for the empty text.
FormatParams == {"K", "L", "M", "N", "O", "P"}
Params == SingleLineParams \cup LayoutParams \cup FormatParams \cup {"Q"}

SingleLine(text, ref_count_flag) ==
  [text |-> text, multi_line |-> FALSE, size |-> [x |-> 0, y |-> 0],
   caret_info |-> FALSE, ref_count_flag |-> ref_count_flag,
   text_alignment |-> "Left", justify |-> FALSE]

MultiLine(text, x, y, caret_info) ==
  [text |-> text, multi_line |-> TRUE, size |-> [x |-> x, y |-> y],
   caret_info |-> caret_info, ref_count_flag |-> FALSE,
   text_alignment |-> "Left", justify |-> FALSE]

Aligned(text, x, text_alignment, justify, caret_info) ==
  [text |-> text, multi_line |-> TRUE, size |-> [x |-> x, y |-> 0],
   caret_info |-> caret_info, ref_count_flag |-> FALSE,
   text_alignment |-> text_alignment, justify |-> justify]

SingleLineCarets(text, x, text_alignment) ==
  [text |-> text, multi_line |-> FALSE, size |-> [x |-> x, y |-> 0],
   caret_info |-> TRUE, ref_count_flag |-> FALSE,
   text_alignment |-> text_alignment, justify |-> FALSE]

\* The FontBufferParameters and the text of a request.
Request(p) ==
  CASE p = "A" -> SingleLine(<<1, Marker, 2>>, TRUE)
    [] p = "B" -> SingleLine(<<2, 3>>, FALSE)
    [] p = "C" -> SingleLine(<<1, 4>>, TRUE)
    [] p = "D" -> MultiLine(<<1, Space, 1, 1>>, 2, 0, FALSE)
    [] p = "E" -> MultiLine(<<1, Space, 1>>, 1, 0, FALSE)
    [] p = "F" -> MultiLine(<<1, Space, 1>>, 0, 0, FALSE)
    [] p = "G" -> MultiLine(<<2, Newline, 2>>, 4, 3, FALSE)
    [] p = "H" -> MultiLine(<<2, Newline, 2>>, 4, 3, TRUE)
    [] p = "I" -> MultiLine(<<1, 1>>, 2, 3, FALSE)
    [] p = "J" -> MultiLine(<<1, Marker, Space, 1>>, 3, 0, FALSE)
    [] p = "K" -> Aligned(<<2, Newline, 2>>, 4, "Center", FALSE, TRUE)
    [] p = "L" -> Aligned(<<1, Space, 1, 1>>, 4, "Right", FALSE, TRUE)
    [] p = "M" -> Aligned(<<1, Space, 1, 1, 1>>, 4, "Left", TRUE, TRUE)
    [] p = "N" -> Aligned(<<1, Space, 1, Space, 1, Space, 1, Space, 1, 1, 1, 1>>,
                          13, "Left", TRUE, FALSE)
    [] p = "O" -> Aligned(<<2, Space, 2, Space, 2, 2, 2>>, 4, "Left", TRUE, TRUE)
    [] p = "P" -> SingleLineCarets(<<2, 3>>, 4, "Right")
    [] p = "Q" -> MultiLine(<<>>, 4, 0, FALSE)

\* The texts the callers ask a texture for (GetTexture), and their bytes;
\* the second holds a character whose glyph the font cannot load.
TextureTexts == {"T", "U"}
TextOf(t) == IF t = "T" THEN <<1, 2>> ELSE <<1, 4>>

get_ref_count_flag(p) == Request(p).ref_count_flag
get_multi_line_setting(p) == Request(p).multi_line
get_caret_info_flag(p) == Request(p).caret_info
get_size(p) == Request(p).size
get_text_alignment(p) == Request(p).text_alignment

\* FontBufferParameters::get_font_size, in pixels; ConvertSize is the identity
\* (no size selector), so the scale is 1.
get_font_size(p) == 2

\* FontBufferParameters::get_line_length: the fixed line length, which left
\* and centre alignment do not have.
get_line_length(p) ==
  IF get_text_alignment(p) \in {"Left", "Center"} /\ ~Request(p).justify THEN 0
  ELSE get_size(p).x * kFreeTypeUnit

\* The glyph id the shaper yields for a character.
GlyphId(char) == IF char \in {Marker, Newline} THEN 0 ELSE char

\* Glyph ids the rasterizer cannot load (FT_Load_Glyph returns an error).
UnsupportedGlyphs == {4}

\* x advance of a glyph, in kFreeTypeUnit-ths of a pixel.
XAdvance(code_point) ==
  CASE code_point = 0 -> 0
    [] code_point = 1 -> 96
    [] code_point = Space -> 32
    [] OTHER -> 64

\* Width and height of a glyph's bitmap, in pixels.
BitmapSize(code_point) == IF code_point = Space THEN 0 ELSE 1

\* hb_shape of a text: per byte a glyph [codepoint, cluster, x_advance], the
\* cluster being the byte's offset in the text.
Shape(text) ==
  [i \in 1 .. Len(text) |->
     [codepoint |-> GlyphId(text[i]), cluster |-> i - 1,
      x_advance |-> XAdvance(GlyphId(text[i]))]]

\* The glyph ids the shaper yields for the whole text of a request.
ShapedGlyphs(p) ==
  [i \in 1 .. Len(Request(p).text) |-> Shape(Request(p).text)[i].codepoint]

\* set_linebreaks_utf8: a break is allowed after a space, forced after a
\* newline and after the last byte of the text.
set_linebreaks_utf8(text) ==
  [i \in 1 .. Len(text) |->
     IF i = Len(text) \/ text[i] = Newline THEN "MUSTBREAK"
     ELSE IF text[i] = Space THEN "ALLOWBREAK"
     ELSE "NOBREAK"]

\* The addresses a FontBuffer can be allocated at.
BufferIds == 1 .. Cardinality(Params)

\* A FontBuffer: id is its address (NoBuffer for the absent map entry);
\* vertices holds kVerticesPerCodePoint vertices [x, y, uv] per code point,
\* indices one index list per atlas slice the buffer uses, slices the atlas
\* slice of each list.  tagged_in_frame and flush_since_tag are history
\* fields: the pass tag was written since the last StartLayoutPass, and the
\* atlas was flushed since the tag was written.
NullBuffer ==
  [id |-> NoBuffer, ref_count |-> 0, revision |-> 0, pass |-> 0, valid |-> TRUE,
   code_points |-> <<>>, vertices |-> <<>>, caret_positions |-> <<>>,
   slices |-> <<>>, indices |-> <<>>, size |-> [x |-> 0, y |-> 0],
   line_start_index_ |-> 0, line_start_caret_index_ |-> 0,
   word_boundary_ |-> <<>>, word_boundary_caret_ |-> <<>>,
   tagged_in_frame |-> FALSE, flush_since_tag |-> FALSE]

\* FontBuffer::FontBuffer(length, caret_info) at a free address.
NewFontBuffer(map) ==
  [NullBuffer EXCEPT
     !.id = CHOOSE i \in BufferIds :
              /\ \A p \in Params : map[p].id # i
              /\ \A j \in BufferIds : (\A p \in Params : map[p].id # j) => i <= j]

\* FontBuffer::set_pass.
set_pass(buffer, pass) ==
  [buffer EXCEPT !.pass = pass, !.tagged_in_frame = TRUE, !.flush_since_tag = FALSE]

\* The value of Body at the value of v.
With(v, Body(_)) == CHOOSE r \in {Body(x) : x \in {v}} : TRUE

\* ---------------------------------------------------------- WordEnumerator
\* The classes libunibreak gives a byte.
BreakClasses == {"MUSTBREAK", "ALLOWBREAK", "NOBREAK", "INSIDEACHAR"}

\* WordEnumerator::WordEnumerator(buffer, single_line).  Indices count from 0
\* as in the code; buffer[i + 1] is the class of byte i.
WordEnumerator(buffer, single_line) ==
  [buffer_ |-> buffer, single_line_ |-> single_line,
   current_index_ |-> 0, current_length_ |-> 0, finished_ |-> FALSE]

\* The scan of WordEnumerator::Advance: the first index >= index that holds a
\* must-break or allow-break byte, or the buffer's size.
RECURSIVE ScanToBreak(_, _)
ScanToBreak(buffer, index) ==
  IF index >= Len(buffer) THEN index
  ELSE IF buffer[index + 1] \in {"MUSTBREAK", "ALLOWBREAK"} THEN index
  ELSE ScanToBreak(buffer, index + 1)

\* Advance yielding the first break byte's index as the length of the word.
Advance_LengthFromStart(we) ==
  IF we.single_line_ /\ ~we.finished_
  THEN [we |-> [we EXCEPT !.finished_ = TRUE, !.current_length_ = Len(we.buffer_)],
        ret |-> TRUE]
  ELSE With([we EXCEPT !.current_index_ = @ + we.current_length_], LAMBDA moved :
         IF moved.current_index_ >= Len(moved.buffer_) \/ moved.finished_
         THEN [we |-> moved, ret |-> FALSE]
         ELSE [we |-> [moved EXCEPT !.current_length_ =
                         ScanToBreak(moved.buffer_, moved.current_index_) + 1],
               ret |-> TRUE])

\* Advance scanning for the breaks in single-line mode as well.
Advance_AlwaysScans(we) ==
  With([we EXCEPT !.current_index_ = @ + we.current_length_], LAMBDA moved :
    IF moved.current_index_ >= Len(moved.buffer_) \/ moved.finished_
    THEN [we |-> moved, ret |-> FALSE]
    ELSE [we |-> [moved EXCEPT !.current_length_ =
                    ScanToBreak(moved.buffer_, moved.current_index_)
                      - moved.current_index_ + 1],
          ret |-> TRUE])

\* WordEnumerator::Advance: the enumerator afterwards and the value returned.
Advance(we) ==
  IF we.single_line_ /\ ~we.finished_
  THEN [we |-> [we EXCEPT !.finished_ = TRUE, !.current_length_ = Len(we.buffer_)],
        ret |-> TRUE]
  ELSE With([we EXCEPT !.current_index_ = @ + we.current_length_], LAMBDA moved :
         IF moved.current_index_ >= Len(moved.buffer_) \/ moved.finished_
         THEN [we |-> moved, ret |-> FALSE]
         ELSE [we |-> [moved EXCEPT !.current_length_ =
                         ScanToBreak(moved.buffer_, moved.current_index_)
                           - moved.current_index_ + 1],
               ret |-> TRUE])

\* WordEnumerator::IsLastWord.
IsLastWord(we) ==
  we.current_index_ + we.current_length_ >= Len(we.buffer_) \/ we.finished_

\* WordEnumerator::GetCurrentWordIndex, GetCurrentWordLength.
GetCurrentWordIndex(we) == we.current_index_
GetCurrentWordLength(we) == we.current_length_

\* WordEnumerator::CurrentWordMustBreak.
CurrentWordMustBreak(we) ==
  IF we.current_index_ + we.current_length_ = 0 THEN FALSE
  ELSE we.buffer_[we.current_index_ + we.current_length_] = "MUSTBREAK"

\* ------------------------------------------------------------ GlyphCache
\* The cache is [entries, ref_, revision, dirty]: entries[i] is the glyph id
\* stored at atlas position i (its UV is the position), ref_[i] the set of
\* FontBuffers registered on the row holding position i.

CacheCapacity == SliceCapacity * MaxSlices

\* GlyphCache::Find: pure lookup.
Find(cache, code_point) ==
  IF \E i \in 1 .. Len(cache.entries) : cache.entries[i] = code_point
  THEN CHOOSE i \in 1 .. Len(cache.entries) : cache.entries[i] = code_point
  ELSE NoEntry

\* GlyphCache::Set: places the glyph in a row of an existing or a new slice;
\* never evicts.  Returns the entry and bumps the revision, or nullptr when no
\* slice has room.
Set(cache, code_point) ==
  IF Len(cache.entries) >= CacheCapacity
  THEN [cache |-> cache, entry |-> NoEntry]
  ELSE [cache |-> [cache EXCEPT !.entries = Append(@, code_point),
                                !.ref_ = Append(@, {}),
                                !.revision = @ + 1,
                                !.dirty = TRUE],
        entry |-> Len(cache.entries) + 1]

\* GlyphCache::get_num_slices.
get_num_slices(cache) ==
  IF Len(cache.entries) = 0 THEN 1
  ELSE (Len(cache.entries) + SliceCapacity - 1) \div SliceCapacity

\* GlyphCache::get_buffer(i): the pixels of slice i (slices count from 0).
get_buffer(cache, i) ==
  LET first == i * SliceCapacity + 1
      last == IF (i + 1) * SliceCapacity < Len(cache.entries)
              THEN (i + 1) * SliceCapacity ELSE Len(cache.entries)
  IN SubSeq(cache.entries, first, last)

\* GlyphCacheEntry::get_uv of the entry at a position.
get_uv(entry) == entry

\* GlyphCacheEntry::get_pos().z(): the atlas slice of the entry.
get_slice(entry) == (entry - 1) \div SliceCapacity

\* GlyphCacheEntry::get_size of an entry of the cache.
get_entry_size(cache, entry) == BitmapSize(cache.entries[entry])

\* GlyphCacheRow::AddRef / Release.
AddRef(cache, entry, buffer_id) ==
  [cache EXCEPT !.ref_[entry] = @ \cup {buffer_id}]

\* FontBuffer::ReleaseCacheRowReference: Release(this) on every row it cites.
ReleaseCacheRowReference(cache, buffer_id) ==
  [cache EXCEPT !.ref_ = [i \in 1 .. Len(cache.ref_) |-> cache.ref_[i] \ {buffer_id}]]

\* The buffers GlyphCacheRow::InvalidateReferencingBuffers reaches over all rows.
ReferencingBuffers(cache) ==
  UNION {cache.ref_[i] : i \in 1 .. Len(cache.ref_)}

\* FontBuffer::Invalidate: the handle-validity flag is cleared.
Invalidate(buffer) == [buffer EXCEPT !.valid = FALSE]

\* GlyphCacheRow::InvalidateReferencingBuffers over the rows of the cache.
InvalidateReferencingBuffers(map, cache) ==
  [p \in Params |->
     IF map[p].id # NoBuffer /\ map[p].id \in ReferencingBuffers(cache)
     THEN Invalidate(map[p]) ELSE map[p]]

\* GlyphCache::Flush: invalidates the buffers referencing the rows, evicts all
\* entries and bumps the revision.
Flush(cache) ==
  [cache EXCEPT !.entries = <<>>, !.ref_ = <<>>, !.revision = @ + 1]

\* ------------------------------------------------------------- FontBuffer
\* Integer division and float-to-int conversion of C++: toward zero.
TruncDiv(a, b) == IF a >= 0 THEN a \div b ELSE -((-a) \div b)

\* Pen positions are [x, y], x in kFreeTypeUnit-ths of a pixel, y in pixels;
\* the buffer stores whole pixels.
Rounded(pos) == [x |-> TruncDiv(pos.x, kFreeTypeUnit), y |-> pos.y]

\* FontBuffer::get_glyph_count.
get_glyph_count(buffer) == Len(buffer.vertices) \div kVerticesPerCodePoint

\* FontBuffer::AddVertices: the four corners of the glyph's quad, each with
\* its corner of the entry's UV rectangle.
AddVertices(buffer, pos, uv, size) ==
  [buffer EXCEPT !.vertices = @ \o
     <<[x |-> Rounded(pos).x, y |-> Rounded(pos).y, uv |-> <<uv, 0>>],
       [x |-> Rounded(pos).x, y |-> Rounded(pos).y + size, uv |-> <<uv, 1>>],
       [x |-> Rounded(pos).x + size, y |-> Rounded(pos).y, uv |-> <<uv, 2>>],
       [x |-> Rounded(pos).x + size, y |-> Rounded(pos).y + size, uv |-> <<uv, 3>>]>>]

\* FontBuffer::UpdateUV(index, uv): index counts code points from 0.
FontBuffer_UpdateUV(buffer, index, uv) ==
  [buffer EXCEPT !.vertices =
     [k \in 1 .. Len(buffer.vertices) |->
        IF (k - 1) \div kVerticesPerCodePoint = index
        THEN [buffer.vertices[k] EXCEPT !.uv = <<uv, (k - 1) % kVerticesPerCodePoint>>]
        ELSE buffer.vertices[k]]]

\* FontBuffer::AddCaretPosition(pos).
AddCaretPosition(buffer, pos) ==
  [buffer EXCEPT !.caret_positions = Append(@, Rounded(pos))]

\* FontBuffer::AddWordBoundary.
AddWordBoundary(buffer, p) ==
  IF Request(p).justify
  THEN [buffer EXCEPT !.word_boundary_ = Append(@, Len(buffer.code_points)),
                      !.word_boundary_caret_ = Append(@, Len(buffer.caret_positions))]
  ELSE buffer

\* The glyph loop of FontBuffer::UpdateLine from code point idx (from 0) on:
\* the four vertices of each code point of the line move by the offset, which
\* in a justified line grows by boundary_offset_change at each word boundary.
RECURSIVE ShiftGlyphs(_, _, _, _, _, _)
ShiftGlyphs(buffer, justify, boundary_offset_change, idx, boundary_index, offset) ==
  IF idx >= Len(buffer.code_points) THEN buffer
  ELSE With(justify /\ idx >= buffer.word_boundary_[boundary_index + 1], LAMBDA crossed :
    With(IF crossed THEN offset + boundary_offset_change ELSE offset, LAMBDA shift :
         ShiftGlyphs(
           [buffer EXCEPT !.vertices =
              [k \in 1 .. Len(buffer.vertices) |->
                 IF (k - 1) \div kVerticesPerCodePoint = idx
                 THEN [buffer.vertices[k] EXCEPT !.x = @ + shift]
                 ELSE buffer.vertices[k]]],
           justify, boundary_offset_change, idx + 1,
           IF crossed THEN boundary_index + 1 ELSE boundary_index, shift)))

\* The caret loop of FontBuffer::UpdateLine from caret idx (from 0) on.
RECURSIVE ShiftCarets(_, _, _, _, _, _)
ShiftCarets(buffer, justify, boundary_offset_change, idx, boundary_index, offset_caret) ==
  IF idx >= Len(buffer.caret_positions) THEN buffer
  ELSE With(justify /\ idx >= buffer.word_boundary_caret_[boundary_index + 1],
            LAMBDA crossed :
    With(IF crossed THEN offset_caret + boundary_offset_change ELSE offset_caret,
         LAMBDA shift :
         ShiftCarets(
           [buffer EXCEPT !.caret_positions[idx + 1].x = @ + shift],
           justify, boundary_offset_change, idx + 1,
           IF crossed THEN boundary_index + 1 ELSE boundary_index, shift)))

\* The line adjusted like any other when justification is not asked for the
\* line or cannot spread it: the offset computed from the alignment alone.
LineOffset(p, justify, spread, line_width) ==
  IF spread THEN 0
  ELSE IF get_text_alignment(p) = "Center"
  THEN TruncDiv(get_size(p).x - line_width, 2)
  ELSE get_size(p).x - line_width

\* UpdateLine moving the glyphs and carets of the whole buffer.
UpdateLine_FromStart(buffer, p, layout_direction, line_width, last_line) ==
  With([justify |-> Request(p).justify /\ ~last_line,
        spread |-> Request(p).justify /\ ~last_line
                   /\ Len(buffer.word_boundary_) > 1,
        flip |-> IF layout_direction = kTextLayoutDirectionRTL THEN -1 ELSE 1],
       LAMBDA at :
    With(IF at.justify \/ get_text_alignment(p) # "Left"
         THEN With([offset |-> at.flip * LineOffset(p, at.justify, at.spread, line_width),
                    boundary_offset_change |->
                      IF at.spread
                      THEN at.flip * TruncDiv(get_size(p).x - line_width,
                                              Len(buffer.word_boundary_) - 1)
                      ELSE 0], LAMBDA by :
                With(ShiftGlyphs(buffer, at.spread, by.boundary_offset_change,
                                 0, 0, by.offset), LAMBDA shifted :
                  IF get_caret_info_flag(p)
                  THEN ShiftCarets(shifted, at.spread, by.boundary_offset_change,
                                   0, 0, by.offset)
                  ELSE shifted))
         ELSE buffer, LAMBDA adjusted :
      [adjusted EXCEPT !.line_start_index_ = Len(buffer.code_points),
                       !.line_start_caret_index_ = Len(buffer.caret_positions),
                       !.word_boundary_ = <<>>,
                       !.word_boundary_caret_ = <<>>]))

\* FontBuffer::UpdateLine(parameters, layout_direction, line_width, last_line):
\* the glyphs and carets from the start of the line on are moved as the
\* alignment and the justification ask, and the next line starts here.  A
\* justified line has more than one word boundary and is not wider than the
\* size asked for, so the unsigned division by the boundary count is that of
\* two non-negative numbers.
UpdateLine(buffer, p, layout_direction, line_width, last_line) ==
  With([justify |-> Request(p).justify /\ ~last_line,
        spread |-> Request(p).justify /\ ~last_line
                   /\ Len(buffer.word_boundary_) > 1,
        flip |-> IF layout_direction = kTextLayoutDirectionRTL THEN -1 ELSE 1],
       LAMBDA at :
    With(IF at.justify \/ get_text_alignment(p) # "Left"
         THEN With([offset |-> at.flip * LineOffset(p, at.justify, at.spread, line_width),
                    boundary_offset_change |->
                      IF at.spread
                      THEN at.flip * TruncDiv(get_size(p).x - line_width,
                                              Len(buffer.word_boundary_) - 1)
                      ELSE 0], LAMBDA by :
                With(ShiftGlyphs(buffer, at.spread, by.boundary_offset_change,
                                 buffer.line_start_index_, 0, by.offset), LAMBDA shifted :
                  IF get_caret_info_flag(p)
                  THEN ShiftCarets(shifted, at.spread, by.boundary_offset_change,
                                   buffer.line_start_caret_index_, 0, by.offset)
                  ELSE shifted))
         ELSE buffer, LAMBDA adjusted :
      [adjusted EXCEPT !.line_start_index_ = Len(buffer.code_points),
                       !.line_start_caret_index_ = Len(buffer.caret_positions),
                       !.word_boundary_ = <<>>,
                       !.word_boundary_caret_ = <<>>]))

\* What the history keeps of one UpdateLine call that took the buffer from
\* `before` to `after`: the line's range, its word boundaries, the arguments,
\* and the x of every code point's first vertex and of every caret.
LineRecord(before, after, line_width, last_line) ==
  [from |-> before.line_start_index_,
   caret_from |-> before.line_start_caret_index_,
   word_boundary_ |-> before.word_boundary_,
   line_width |-> line_width, last_line |-> last_line,
   x_before |-> [i \in 1 .. Len(before.code_points) |->
                   before.vertices[(i - 1) * kVerticesPerCodePoint + 1].x],
   x_after |-> [i \in 1 .. Len(after.code_points) |->
                  after.vertices[(i - 1) * kVerticesPerCodePoint + 1].x],
   quads_kept |-> \A k \in 1 .. Len(after.vertices) :
                    /\ after.vertices[k].y = before.vertices[k].y
                    /\ after.vertices[k].x - before.vertices[k].x
                         = after.vertices[((k - 1) \div kVerticesPerCodePoint)
                                            * kVerticesPerCodePoint + 1].x
                           - before.vertices[((k - 1) \div kVerticesPerCodePoint)
                                             * kVerticesPerCodePoint + 1].x,
   caret_before |-> [i \in 1 .. Len(before.caret_positions) |->
                       before.caret_positions[i].x],
   caret_after |-> [i \in 1 .. Len(after.caret_positions) |->
                      after.caret_positions[i].x]]

\* The quad of code point `index` (from 0) in the slice's index list.
QuadIndices(current_glyph_count) ==
  [j \in 1 .. Len(kIndices) |-> kIndices[j] + current_glyph_count * kVerticesPerCodePoint]

\* ----------------------------------------------------------- FontManager
\* m is the manager: [glyph_cache_, atlas_textures_, map_buffers_,
\* current_atlas_revision_, current_pass_, wordbreak_info_, harfbuzz_buf_,
\* log]; log lists what the running operation did to the atlas, in order.

\* A texture created by ExpandAtlasTexture and not uploaded to yet.
BlankTexture == <<>>

\* FontManager::ExpandAtlasTexture.
ExpandAtlasTexture(m) ==
  LET slices == get_num_slices(m.glyph_cache_) IN
  IF slices > Len(m.atlas_textures_)
  THEN [m EXCEPT !.atlas_textures_ =
          [i \in 1 .. slices |->
             IF i <= Len(m.atlas_textures_) THEN m.atlas_textures_[i]
             ELSE BlankTexture]]
  ELSE m

\* FT_Load_Glyph succeeds.
FT_Load_Glyph(code_point) == code_point \notin UnsupportedGlyphs

\* FontManager::GetCachedEntry.  Returns the manager afterwards, the entry
\* (NoEntry for nullptr) and why it is null.
GetCachedEntry(m, code_point) ==
  LET found == Find(m.glyph_cache_, code_point) IN
  IF found # NoEntry
  THEN [m |-> ExpandAtlasTexture(m), entry |-> found, why |-> "ok"]
  ELSE IF ~FT_Load_Glyph(code_point)
  THEN [m |-> m, entry |-> NoEntry, why |-> "unsupported"]
  ELSE LET set == Set(m.glyph_cache_, code_point) IN
       IF set.entry = NoEntry
       THEN [m |-> m, entry |-> NoEntry, why |-> "full"]
       ELSE [m |-> ExpandAtlasTexture([m EXCEPT !.glyph_cache_ = set.cache]),
             entry |-> set.entry, why |-> "ok"]

\* The loop of FontManager::UpdateUV from code point i on.
RECURSIVE UpdateUVFrom(_, _, _)
UpdateUVFrom(m, p, i) ==
  IF i > Len(m.map_buffers_[p].code_points)
  THEN [m |-> m, ret |-> m.map_buffers_[p].id, why |-> "ok"]
  ELSE With(GetCachedEntry(m, m.map_buffers_[p].code_points[i]), LAMBDA cache :
         IF cache.entry = NoEntry
         THEN [m |-> cache.m, ret |-> NoBuffer, why |-> cache.why]
         ELSE With([cache.m EXCEPT
                      !.map_buffers_[p] =
                         [FontBuffer_UpdateUV(@, i - 1, get_uv(cache.entry))
                            EXCEPT !.revision = cache.m.glyph_cache_.revision]],
                   LAMBDA updated : UpdateUVFrom(updated, p, i + 1)))

\* FontManager::UpdateUV on the buffer the map holds for p.
UpdateUV(m, p) ==
  IF m.map_buffers_[p].revision # m.current_atlas_revision_
  THEN UpdateUVFrom(m, p, 1)
  ELSE [m |-> m, ret |-> m.map_buffers_[p].id, why |-> "ok"]

\* FontBuffer::~FontBuffer: the buffer takes its address off the rows it cites.
DestroyBuffer(m, buffer) ==
  [m EXCEPT !.glyph_cache_ = ReleaseCacheRowReference(@, buffer.id)]

\* FontManager::LayoutText: the text is added to the shaping buffer and the
\* buffer is shaped; returns the width of what the buffer holds.
RECURSIVE StringWidth(_)
StringWidth(glyph_pos) ==
  IF glyph_pos = <<>> THEN 0
  ELSE Head(glyph_pos).x_advance + StringWidth(Tail(glyph_pos))

LayoutText(m, text) ==
  [m |-> [m EXCEPT !.harfbuzz_buf_ = @ \o text],
   width |-> StringWidth(Shape(m.harfbuzz_buf_ \o text))]

\* The glyphs hb_shape leaves in the shaping buffer: in visual order, which
\* for a right-to-left buffer is the text's order reversed (the clusters
\* descend).
RECURSIVE Reversed(_)
Reversed(seq) ==
  IF seq = <<>> THEN <<>> ELSE Append(Reversed(Tail(seq)), Head(seq))

hb_buffer_get_glyph_infos(m) ==
  IF m.layout_direction_ = kTextLayoutDirectionRTL
  THEN Reversed(Shape(m.harfbuzz_buf_))
  ELSE Shape(m.harfbuzz_buf_)

\* hb_buffer_clear_contents(harfbuzz_buf_).
hb_buffer_clear_contents(m) == [m EXCEPT !.harfbuzz_buf_ = <<>>]

\* FontManager::GetCaretPosCount: the characters of the cluster of glyph
\* `index` (from 0), counted in the word's break classes; the next cluster is
\* that of the glyph after it in the direction of the layout.
GetCaretPosCount(m, word_enum, glyph_info, index) ==
  LET byte_index == glyph_info[index + 1].cluster
      direction == IF m.layout_direction_ = kTextLayoutDirectionLTR THEN 1 ELSE -1
      byte_size == IF index >= -direction /\ index < Len(glyph_info) - direction
                   THEN glyph_info[index + direction + 1].cluster - byte_index
                   ELSE GetCurrentWordLength(word_enum) - byte_index
  IN Cardinality({i \in 0 .. byte_size - 1 :
       word_enum.buffer_[GetCurrentWordIndex(word_enum) + byte_index + i + 1]
         # "INSIDEACHAR"})

\* The caret positions of one glyph: carets 1 .. carets, spread over the
\* glyph's advance behind the pen (idx_advance is 1 left to right, -1 right to
\* left).
RECURSIVE AddCaretPositions(_, _, _, _, _, _)
AddCaretPositions(buffer, pos, idx_advance, pos_advance, carets, caret) ==
  IF caret > carets THEN buffer
  ELSE AddCaretPositions(
         AddCaretPosition(buffer,
           [pos EXCEPT !.x = @ + idx_advance * ((caret * pos_advance) \div carets
                                                - pos_advance)]),
         pos, idx_advance, pos_advance, carets, caret + 1)

\* Every glyph taken to have a size.
HasSize_Always(cache, entry) == TRUE

\* The glyph has a size: cache->get_size().x() && cache->get_size().y().
HasSize(cache, entry) == get_entry_size(cache, entry) # 0

\* The part of the glyph loop that registers the quad of a glyph with a size:
\* code point, slice index list, indices, vertices, row reference.
AddGlyph(g, p, code_point, entry) ==
  LET slice == get_slice(entry)
      new_slice == g.atlas_indices_[slice] = kInvalidSliceIndex
      slice_idx == IF new_slice THEN Len(g.buffer.slices) ELSE g.atlas_indices_[slice]
      expanded == IF new_slice
                  THEN [g.buffer EXCEPT !.slices = Append(@, slice),
                                        !.indices = Append(@, <<>>)]
                  ELSE g.buffer
      indexed == [expanded EXCEPT
                    !.code_points = Append(@, code_point),
                    !.indices[slice_idx + 1] = @ \o QuadIndices(get_glyph_count(g.buffer))]
  IN [g EXCEPT
        !.atlas_indices_[slice] = slice_idx,
        !.buffer = AddVertices(indexed, g.pos, get_uv(entry),
                               get_entry_size(g.m.glyph_cache_, entry)),
        !.m = IF get_ref_count_flag(p)
              THEN [g.m EXCEPT !.glyph_cache_ = AddRef(@, entry, g.buffer.id)]
              ELSE g.m]

\* The glyph loop of FontManager::CreateBuffer over the glyphs the shaping
\* buffer holds, from pass i (from 0) on: glyph idx is glyph i left to right
\* and glyph glyph_count - 1 - i right to left, where the pen moves before the
\* glyph is registered.  g is [m, buffer, pos, atlas_indices_, why, passes]:
\* why is "ok", or the reason GetCachedEntry returned nullptr; passes is the
\* history of the loop, per pass the glyph index, whether the glyph was
\* skipped, its advance, and the pen x before the pass, when the glyph was
\* registered and after the pass.
RECURSIVE LayoutGlyphs(_, _, _, _, _)
LayoutGlyphs(g, p, word_enum, lastline_must_break, i) ==
  With(hb_buffer_get_glyph_infos(g.m), LAMBDA glyph_info :
    With([rtl |-> g.m.layout_direction_ = kTextLayoutDirectionRTL,
          idx |-> IF g.m.layout_direction_ = kTextLayoutDirectionRTL
                  THEN Len(glyph_info) - 1 - i ELSE i], LAMBDA at :
    IF i >= Len(glyph_info) THEN g
    ELSE IF glyph_info[at.idx + 1].codepoint = 0
    THEN LayoutGlyphs([g EXCEPT !.passes = Append(@,
                         [idx |-> at.idx, glyph_count |-> Len(glyph_info),
                          skipped |-> TRUE, x_advance |-> 0, from |-> g.pos.x,
                          at |-> g.pos.x, to |-> g.pos.x])],
                      p, word_enum, lastline_must_break, i + 1)
    ELSE With(GetCachedEntry(g.m, glyph_info[at.idx + 1].codepoint), LAMBDA cache :
      IF cache.entry = NoEntry
      THEN [g EXCEPT !.m = cache.m, !.why = cache.why]
      ELSE With([g EXCEPT !.m = cache.m,
                          !.pos.x = IF at.rtl THEN @ - glyph_info[at.idx + 1].x_advance
                                    ELSE @], LAMBDA before :
        With(IF HasSize(cache.m.glyph_cache_, cache.entry)
             THEN AddGlyph(before, p, glyph_info[at.idx + 1].codepoint, cache.entry)
             ELSE before, LAMBDA added :
        With([added EXCEPT !.pos.x = IF at.rtl THEN @
                                     ELSE @ + glyph_info[at.idx + 1].x_advance,
                           !.passes = Append(@,
                             [idx |-> at.idx, glyph_count |-> Len(glyph_info),
                              skipped |-> FALSE,
                              x_advance |-> glyph_info[at.idx + 1].x_advance,
                              from |-> g.pos.x, at |-> before.pos.x,
                              to |-> IF at.rtl THEN before.pos.x
                                     ELSE before.pos.x
                                          + glyph_info[at.idx + 1].x_advance])],
             LAMBDA moved :
          With(IF get_caret_info_flag(p)
                  /\ ~(lastline_must_break /\ i = Len(glyph_info) - 1)
               THEN [moved EXCEPT !.buffer =
                       AddCaretPositions(@, moved.pos, IF at.rtl THEN -1 ELSE 1,
                                         glyph_info[at.idx + 1].x_advance,
                                         GetCaretPosCount(moved.m, word_enum,
                                                          glyph_info, at.idx), 1)]
               ELSE moved, LAMBDA careted :
            LayoutGlyphs(careted, p, word_enum, lastline_must_break, i + 1))))))))

\* What lies behind a text: up to MaxPastText bytes that can be read (shown
\* are bytes that shape to the glyph 1 and bytes that shape to glyph id 0),
\* and behind them memory that cannot.
RECURSIVE BytesOfLen(_)
BytesOfLen(n) ==
  IF n = 0 THEN {<<>>}
  ELSE {Append(b, c) : b \in BytesOfLen(n - 1), c \in {Marker, 1}}

PastTexts == UNION {BytesOfLen(n) : n \in 0 .. MaxPastText}

\* The memory from the first byte of the text of a request on, as far as it
\* can be read: the text and what lies behind it.
TextMemory(m, p) == Request(p).text \o m.past_text

\* The span of the current word of the enumerator does not end in memory
\* that can be read.
ReadsUnmapped(m, p, word_enum) ==
  GetCurrentWordIndex(word_enum) + GetCurrentWordLength(word_enum)
    > Len(TextMemory(m, p))

\* The text of the current word of the enumerator: text + index, length.
CurrentWord(text, word_enum) ==
  SubSeq(text, GetCurrentWordIndex(word_enum) + 1,
         GetCurrentWordIndex(word_enum) + GetCurrentWordLength(word_enum))

\* The line break that compares the widths in kFreeTypeUnit-ths of a pixel.
LineBreak_InUnits(st, p, word_width) ==
  \/ st.lastline_must_break
  \/ st.line_width + word_width > get_size(p).x * kFreeTypeUnit

\* The condition on which the multi-line layout breaks the line before a word.
LineBreak(st, p, word_width) ==
  \/ st.lastline_must_break
  \/ (st.line_width + word_width) \div kFreeTypeUnit > get_size(p).x

\* The layout stopping whether or not carets are asked for.
ExceedsSize_WithCarets(st, p) ==
  /\ get_size(p).y # 0
  /\ st.total_height > get_size(p).y

\* The condition on which the layout stops after it has broken a line.
ExceedsSize(st, p) ==
  /\ get_size(p).y # 0
  /\ st.total_height > get_size(p).y
  /\ ~get_caret_info_flag(p)

\* The pen starting every line at the left end.
pos_start_Left(m, p) == 0

\* The x the pen starts every line at, in kFreeTypeUnit-ths: the right end of
\* the size asked for when the layout runs right to left.
pos_start(m, p) ==
  IF m.layout_direction_ = kTextLayoutDirectionRTL
  THEN get_size(p).x * kFreeTypeUnit ELSE 0

\* The line break of the multi-line layout: the line is closed, the pen moves
\* to the start of the next line; the layout stops when the text has become
\* higher than the size asked for, else the word opens the new line.
BreakLine(st, p, word_width) ==
  With([st EXCEPT
          !.buffer = UpdateLine(@, p, st.m.layout_direction_,
                                st.line_width \div kFreeTypeUnit,
                                st.lastline_must_break),
          !.lines = Append(@, LineRecord(st.buffer,
                             UpdateLine(st.buffer, p, st.m.layout_direction_,
                                        st.line_width \div kFreeTypeUnit,
                                        st.lastline_must_break),
                             st.line_width \div kFreeTypeUnit,
                             st.lastline_must_break)),
          !.pos = [x |-> pos_start(st.m, p),
                   y |-> st.pos.y + get_font_size(p) * line_height_],
          !.total_height = @ + get_font_size(p) * line_height_,
          !.first_character = st.lastline_must_break], LAMBDA broken :
    IF ExceedsSize(broken, p)
    THEN [broken EXCEPT !.m = hb_buffer_clear_contents(@), !.truncated = TRUE]
    ELSE [broken EXCEPT !.line_width = word_width])

\* The head of the word loop: the word (in single-line mode the whole text) is
\* shaped and measured and the line is broken where needed.
MeasureWord(st, p) ==
  IF ~get_multi_line_setting(p)
  THEN With(LayoutText(st.m, Request(p).text), LAMBDA layout :
         [st EXCEPT !.m = layout.m, !.max_line_width = layout.width,
                    !.pos.x = IF /\ st.m.layout_direction_ = kTextLayoutDirectionRTL
                                 /\ get_size(p).x = 0
                              THEN (layout.width \div kFreeTypeUnit) * kFreeTypeUnit
                              ELSE @])
  ELSE IF ReadsUnmapped(st.m, p, st.word_enum)
  THEN [st EXCEPT !.why = "segmentation fault"]
  ELSE With(LayoutText(st.m, CurrentWord(TextMemory(st.m, p), st.word_enum)),
            LAMBDA layout :
         With(IF LineBreak(st, p, layout.width)
              THEN BreakLine([st EXCEPT !.m = layout.m], p, layout.width)
              ELSE [st EXCEPT !.m = layout.m, !.line_width = @ + layout.width],
              LAMBDA placed :
           IF placed.truncated THEN placed
           ELSE [placed EXCEPT
                   !.max_line_width = IF @ > placed.line_width THEN @
                                      ELSE placed.line_width,
                   !.lastline_must_break = CurrentWordMustBreak(st.word_enum)]))

\* The rest of the word loop: first caret, the glyphs, word boundary, revision.
EmitWord(st, p) ==
  With(IF get_caret_info_flag(p) /\ st.first_character
       THEN [st EXCEPT !.buffer = AddCaretPosition(@, st.pos),
                       !.first_character = FALSE]
       ELSE st, LAMBDA started :
    With(LayoutGlyphs([m |-> started.m, buffer |-> started.buffer, pos |-> started.pos,
                       atlas_indices_ |-> started.atlas_indices_, why |-> "ok",
                       passes |-> <<>>],
                      p, started.word_enum, started.lastline_must_break, 0), LAMBDA g :
      IF g.why # "ok"
      THEN [started EXCEPT !.m = hb_buffer_clear_contents(g.m), !.buffer = g.buffer,
                           !.why = g.why, !.passes = g.passes]
      ELSE [started EXCEPT
              !.m = hb_buffer_clear_contents(g.m),
              !.buffer = [AddWordBoundary(g.buffer, p)
                            EXCEPT !.revision = g.m.glyph_cache_.revision],
              !.pos = g.pos,
              !.atlas_indices_ = g.atlas_indices_,
              !.passes = g.passes]))

\* What the history keeps of one pass of the word loop that took the layout
\* from st to done; measured is the layout after the head of the loop.
WordRecord(st, measured, done, width) ==
  [index |-> GetCurrentWordIndex(st.word_enum),
   length |-> GetCurrentWordLength(st.word_enum),
   word_width |-> width,
   before |-> [pos |-> st.pos, line_width |-> st.line_width,
               total_height |-> st.total_height,
               lastline_must_break |-> st.lastline_must_break,
               line_start_index_ |-> st.buffer.line_start_index_,
               code_points |-> Len(st.buffer.code_points)],
   start |-> [pos |-> measured.pos, line_width |-> measured.line_width,
              total_height |-> measured.total_height,
              lastline_must_break |-> measured.lastline_must_break,
              line_start_index_ |-> measured.buffer.line_start_index_],
   truncated |-> measured.truncated,
   why |-> done.why,
   code_points |-> Len(done.buffer.code_points),
   passes |-> IF measured.truncated \/ measured.why # "ok" THEN <<>>
              ELSE done.passes]

\* One pass of the word loop, for the word the enumerator stands on.
LayoutWord(st, p) ==
  With(MeasureWord(st, p), LAMBDA measured :
    With(IF measured.truncated \/ measured.why # "ok" THEN measured
         ELSE EmitWord(measured, p), LAMBDA done :
      [done EXCEPT !.words = Append(@,
         WordRecord(st, measured, done,
                    IF measured.why # "ok" THEN 0
                    ELSE LayoutText(st.m, IF get_multi_line_setting(p)
                                          THEN CurrentWord(TextMemory(st.m, p),
                                                           st.word_enum)
                                          ELSE Request(p).text).width))]))

\* The word loop of FontManager::CreateBuffer: while (word_enum.Advance()).
RECURSIVE LayoutWords(_, _)
LayoutWords(st, p) ==
  With(Advance(st.word_enum), LAMBDA advanced :
    IF ~advanced.ret THEN [st EXCEPT !.word_enum = advanced.we]
    ELSE With(LayoutWord([st EXCEPT !.word_enum = advanced.we], p), LAMBDA done :
           IF done.why # "ok" \/ done.truncated THEN done
           ELSE LayoutWords(done, p)))

\* FontManager::CreateBuffer from the new FontBuffer to the word loop: the
\* text's break classes are taken when it has a length.
StartLayout(m, p) ==
  With(IF Len(Request(p).text) # 0
       THEN [m EXCEPT !.wordbreak_info_ = set_linebreaks_utf8(Request(p).text)]
       ELSE m, LAMBDA classified :
    [m |-> classified,
     buffer |-> NewFontBuffer(m.map_buffers_),
     word_enum |-> WordEnumerator(classified.wordbreak_info_,
                                  ~get_multi_line_setting(p)),
     pos |-> [x |-> pos_start(m, p), y |-> 0],
     atlas_indices_ |-> [slice \in 0 .. MaxSlices - 1 |-> kInvalidSliceIndex],
     line_width |-> 0,
     max_line_width |-> get_line_length(p),
     total_height |-> get_font_size(p),
     lastline_must_break |-> FALSE,
     first_character |-> TRUE,
     truncated |-> FALSE,
     why |-> "ok",
     words |-> <<>>,
     lines |-> <<>>,
     passes |-> <<>>])

\* FontManager::CreateBuffer after the word loop: last caret, last line, size,
\* reference count, pass, and the insert into the map.
FinishBuffer(st, p) ==
  With(IF get_caret_info_flag(p) THEN AddCaretPosition(st.buffer, st.pos)
       ELSE st.buffer, LAMBDA careted :
    With([UpdateLine(careted, p, st.m.layout_direction_,
                     st.line_width \div kFreeTypeUnit, TRUE) EXCEPT
            !.size = [x |-> st.max_line_width \div kFreeTypeUnit,
                      y |-> st.total_height],
            !.ref_count = 1], LAMBDA stamped :
      With(IF st.m.current_pass_ # kRenderPass
           THEN set_pass(stamped, st.m.current_pass_) ELSE stamped, LAMBDA buffer :
        [m |-> [st.m EXCEPT !.map_buffers_[p] = buffer], ret |-> buffer.id,
         path |-> "build", why |-> "ok", words |-> st.words,
         lines |-> Append(st.lines,
                     LineRecord(careted,
                                UpdateLine(careted, p, st.m.layout_direction_,
                                           st.line_width \div kFreeTypeUnit, TRUE),
                                st.line_width \div kFreeTypeUnit, TRUE))])))

\* The build putting what it has laid out into the map when it aborts.
BuildBuffer_KeepsPartial(m, p) ==
  With(LayoutWords(StartLayout(m, p), p), LAMBDA st :
    IF st.why # "ok"
    THEN [m |-> [st.m EXCEPT !.map_buffers_[p] = [st.buffer EXCEPT !.ref_count = 1]],
          ret |-> NoBuffer, path |-> "build", why |-> st.why, words |-> st.words,
          lines |-> st.lines]
    ELSE FinishBuffer(st, p))

\* The build giving up the buffer of an aborted layout without destroying it.
BuildBuffer_LeaksAborted(m, p) ==
  With(LayoutWords(StartLayout(m, p), p), LAMBDA st :
    IF st.why # "ok"
    THEN [m |-> st.m, ret |-> NoBuffer,
          path |-> "build", why |-> st.why, words |-> st.words,
          lines |-> st.lines]
    ELSE FinishBuffer(st, p))

\* FontManager::CreateBuffer, the part that builds a new FontBuffer (the
\* parameters are not in the map).
BuildBuffer(m, p) ==
  With(LayoutWords(StartLayout(m, p), p), LAMBDA st :
    IF st.why = "segmentation fault"
    THEN [m |-> st.m, ret |-> Crashed, path |-> "build", why |-> st.why,
          words |-> st.words, lines |-> st.lines]
    ELSE IF st.why # "ok"
    THEN [m |-> DestroyBuffer(st.m, st.buffer), ret |-> NoBuffer,
          path |-> "build", why |-> st.why, words |-> st.words,
          lines |-> st.lines]
    ELSE FinishBuffer(st, p))

\* The fetch counting a reference whether or not the parameters ask for it.
FetchBuffer_AlwaysCounts(m, p, null_deref) ==
  With(IF m.current_pass_ # kRenderPass
       THEN [m EXCEPT !.map_buffers_[p] = set_pass(@, m.current_pass_)]
       ELSE m, LAMBDA tagged :
    With(UpdateUV(tagged, p), LAMBDA ret :
      IF ret.ret # NoBuffer
      THEN [m |-> [ret.m EXCEPT !.map_buffers_[p].ref_count = @ + 1],
            ret |-> ret.ret, path |-> "dedup", why |-> "ok", words |-> <<>>, lines |-> <<>>]
      ELSE [m |-> ret.m, ret |-> ret.ret, path |-> "dedup", why |-> ret.why, words |-> <<>>, lines |-> <<>>]))

\* FontManager::CreateBuffer, the part that returns the FontBuffer the map holds
\* for the parameters.  When UpdateUV returns nullptr and the reference count is
\* requested, the code writes through the null pointer; null_deref is what that
\* does in the running build: the call never returns ("crash"), or the write
\* lands on the buffer and the buffer is returned ("proceed").
FetchBuffer(m, p, null_deref) ==
  With(IF m.current_pass_ # kRenderPass
       THEN [m EXCEPT !.map_buffers_[p] = set_pass(@, m.current_pass_)]
       ELSE m, LAMBDA tagged :
    With(UpdateUV(tagged, p), LAMBDA ret :
      IF ~get_ref_count_flag(p)
      THEN [m |-> ret.m, ret |-> ret.ret, path |-> "dedup", why |-> ret.why, words |-> <<>>, lines |-> <<>>]
      ELSE IF ret.ret # NoBuffer
      THEN [m |-> [ret.m EXCEPT !.map_buffers_[p].ref_count = @ + 1],
            ret |-> ret.ret, path |-> "dedup", why |-> "ok", words |-> <<>>, lines |-> <<>>]
      ELSE IF null_deref = "crash"
      THEN [m |-> ret.m, ret |-> Crashed, path |-> "dedup",
            why |-> "null dereference", words |-> <<>>, lines |-> <<>>]
      ELSE [m |-> [ret.m EXCEPT !.map_buffers_[p].ref_count = @ + 1],
            ret |-> ret.m.map_buffers_[p].id, path |-> "dedup",
            why |-> "null dereference", words |-> <<>>, lines |-> <<>>]))

\* FontManager::CreateBuffer.
CreateBuffer(m, p, null_deref) ==
  IF m.map_buffers_[p].id # NoBuffer
  THEN FetchBuffer(m, p, null_deref)
  ELSE BuildBuffer(m, p)

\* The upload loop of FontManager::UpdatePass: every slice of the cache is
\* copied to its texture.
UploadSlices(m) ==
  [i \in 1 .. Len(m.atlas_textures_) |->
     IF i <= get_num_slices(m.glyph_cache_)
     THEN get_buffer(m.glyph_cache_, i - 1)
     ELSE m.atlas_textures_[i]]

\* The upload of a dirty atlas in whatever pass.
UploadDirty_InAnyPass(m) ==
  IF m.glyph_cache_.dirty
  THEN [m EXCEPT !.atlas_textures_ = UploadSlices(m),
                 !.current_atlas_revision_ = m.glyph_cache_.revision,
                 !.glyph_cache_.dirty = FALSE,
                 !.log = @ \o <<"upload", "snapshot", "clear dirty">>]
  ELSE m

\* FontManager::UpdatePass, the upload of a dirty atlas in pass <= 0.
UploadDirty(m) ==
  IF m.glyph_cache_.dirty /\ m.current_pass_ <= 0
  THEN [m EXCEPT !.atlas_textures_ = UploadSlices(m),
                 !.current_atlas_revision_ = m.glyph_cache_.revision,
                 !.glyph_cache_.dirty = FALSE,
                 !.log = @ \o <<"upload", "snapshot", "clear dirty">>]
  ELSE m

\* The subpass flushing the atlas only when it is the first one.
StartSubpass_FlushesFirstOnly(m) ==
  IF m.current_pass_ > 0
  THEN [m EXCEPT !.current_pass_ = @ + 1, !.log = Append(@, "warning")]
  ELSE [m EXCEPT
          !.map_buffers_ =
             [p \in Params |->
                IF m.map_buffers_[p].id = NoBuffer THEN m.map_buffers_[p]
                ELSE [InvalidateReferencingBuffers(m.map_buffers_, m.glyph_cache_)[p]
                        EXCEPT !.flush_since_tag = TRUE]],
          !.glyph_cache_ = Flush(m.glyph_cache_),
          !.current_atlas_revision_ = Flush(m.glyph_cache_).revision,
          !.current_pass_ = @ + 1,
          !.log = @ \o <<"flush", "snapshot">>]

\* FontManager::UpdatePass, the branch of start_subpass = true.
StartSubpass(m) ==
  [m EXCEPT
     !.map_buffers_ =
        [p \in Params |->
           IF m.map_buffers_[p].id = NoBuffer THEN m.map_buffers_[p]
           ELSE [InvalidateReferencingBuffers(m.map_buffers_, m.glyph_cache_)[p]
                   EXCEPT !.flush_since_tag = TRUE]],
     !.glyph_cache_ = Flush(m.glyph_cache_),
     !.current_atlas_revision_ = Flush(m.glyph_cache_).revision,
     !.current_pass_ = @ + 1,
     !.log = (IF m.current_pass_ > 0 THEN Append(@, "warning") ELSE @)
             \o <<"flush", "snapshot">>]

\* UpdatePass going back to pass 0 instead of entering the Render pass.
UpdatePassOf_RenderIsLayout(m, start_subpass) ==
  With(UploadDirty(m), LAMBDA uploaded :
    IF start_subpass
    THEN StartSubpass(uploaded)
    ELSE [uploaded EXCEPT !.current_pass_ = 0])

\* FontManager::UpdatePass without the history of the frame.
UpdatePassOf(m, start_subpass) ==
  With(UploadDirty(m), LAMBDA uploaded :
    IF start_subpass
    THEN StartSubpass(uploaded)
    ELSE [uploaded EXCEPT !.current_pass_ = kRenderPass])

\* FontManager::FlushAndUpdate.
FlushAndUpdate(m) == UpdatePassOf(m, TRUE)

\* What GetBuffer's history keeps of one CreateBuffer call for p that took the
\* manager from `before` to created.m: stale tells that the map held a buffer
\* for p whose revision was not the cache's.
Attempt(before, created, p) ==
  [path |-> created.path, why |-> created.why, ret |-> created.ret,
   map_kept |-> created.m.map_buffers_ = before.map_buffers_,
   ref_count_kept |-> created.m.map_buffers_[p].ref_count
                        = before.map_buffers_[p].ref_count,
   words |-> created.words,
   lines |-> created.lines,
   stale |-> /\ before.map_buffers_[p].id # NoBuffer
             /\ before.map_buffers_[p].revision # before.glyph_cache_.revision]

\* GetBuffer retrying without the flush.
GetBufferOf_RetryWithoutFlush(m, p, null_deref) ==
  With(CreateBuffer(m, p, null_deref), LAMBDA first :
    IF first.ret # NoBuffer
    THEN [m |-> first.m, ret |-> first.ret, attempts |-> <<Attempt(m, first, p)>>]
    ELSE With(CreateBuffer(first.m, p, null_deref), LAMBDA second :
           [m |-> second.m, ret |-> second.ret,
            attempts |-> <<Attempt(m, first, p), Attempt(first.m, second, p)>>]))

\* FontManager::GetBuffer: the manager afterwards, the returned buffer and the
\* attempts made, in order.
GetBufferOf(m, p, null_deref) ==
  With(CreateBuffer(m, p, null_deref), LAMBDA first :
    IF first.ret # NoBuffer
    THEN [m |-> first.m, ret |-> first.ret, attempts |-> <<Attempt(m, first, p)>>]
    ELSE With(FlushAndUpdate(first.m), LAMBDA flushed :
           With(CreateBuffer(flushed, p, null_deref), LAMBDA second :
             [m |-> second.m, ret |-> second.ret,
              attempts |-> <<Attempt(m, first, p), Attempt(flushed, second, p)>>])))

\* The release that leaves the buffer in the map when its count reaches 0.
ReleaseBufferOf_NeverDestroys(m, p) ==
  [m EXCEPT !.map_buffers_[p].ref_count = @ - 1]

\* The release that destroys the buffer whatever its count.
ReleaseBufferOf_AlwaysDestroys(m, p) ==
  [m EXCEPT !.glyph_cache_ = ReleaseCacheRowReference(@, m.map_buffers_[p].id),
            !.map_buffers_[p] = NullBuffer]

\* FontManager::ReleaseBuffer on the buffer the map holds for p.
ReleaseBufferOf(m, p) ==
  IF m.map_buffers_[p].ref_count - 1 = 0
  THEN [m EXCEPT !.glyph_cache_ = ReleaseCacheRowReference(@, m.map_buffers_[p].id),
                 !.map_buffers_[p] = NullBuffer]
  ELSE [m EXCEPT !.map_buffers_[p].ref_count = @ - 1]

\* map_buffers_.clear(): every FontBuffer of the map is destroyed.
RECURSIVE ClearBuffers(_, _)
ClearBuffers(m, params) ==
  IF params = {} THEN m
  ELSE With(CHOOSE p \in params : TRUE, LAMBDA p :
         ClearBuffers(
           [DestroyBuffer(m, m.map_buffers_[p]) EXCEPT
              !.map_buffers_[p] = NullBuffer,
              !.log = IF m.map_buffers_[p].id \in ReferencingBuffers(m.glyph_cache_)
                      THEN Append(@, "release rows") ELSE @],
           params \ {p}))

\* FontManager::Close(font_name) of an open font that is not the selected one:
\* the face goes, and with it every texture and every buffer of the manager.
CloseOf(m) ==
  [ClearBuffers(m, {p \in Params : m.map_buffers_[p].id # NoBuffer})
     EXCEPT !.map_textures_ = [t \in TextureTexts |-> NoTexture]]

\* The glyph loop of FontManager::GetTexture from glyph i (from 1) on: the
\* code points copied into the image, or NoTexture when a glyph cannot be
\* loaded.
RECURSIVE CopyGlyphs(_, _, _)
CopyGlyphs(glyph_info, i, image) ==
  IF i > Len(glyph_info) THEN image
  ELSE IF glyph_info[i].codepoint = 0 THEN CopyGlyphs(glyph_info, i + 1, image)
  ELSE IF ~FT_Load_Glyph(glyph_info[i].codepoint) THEN NoTexture
  ELSE CopyGlyphs(glyph_info, i + 1, Append(image, glyph_info[i].codepoint))

\* FontManager::GetTexture(text, length, ysize): the texture the map holds for
\* the text, or a new one with the glyphs the shaping buffer yields after
\* LayoutText; nullptr when one of them cannot be loaded.  A texture is the
\* code points copied into its image (a text without a loadable glyph that
\* is not skipped is not among TextureTexts).
GetTextureOf(m, t) ==
  IF m.map_textures_[t] # NoTexture THEN [m |-> m, ret |-> m.map_textures_[t]]
  ELSE With(LayoutText(m, TextOf(t)), LAMBDA layout :
    With(CopyGlyphs(hb_buffer_get_glyph_infos(layout.m), 1, <<>>), LAMBDA image :
      IF image = NoTexture
      THEN [m |-> layout.m, ret |-> NoTexture]
      ELSE [m |-> [hb_buffer_clear_contents(layout.m)
                     EXCEPT !.map_textures_[t] = image],
            ret |-> image]))

\* ------------------------------------------------------------------ state
VARIABLES
  glyph_cache_,             \* the GlyphCache
  atlas_textures_,          \* per slice, the pixels last uploaded to its texture
  map_buffers_,             \* parameters -> FontBuffer (NullBuffer when absent)
  map_textures_,            \* text -> FontTexture (NoTexture when absent)
  current_atlas_revision_,  \* the cache revision snapshot of the manager
  current_pass_,            \* 0 layout, > 0 subpass, kRenderPass
  wordbreak_info_,          \* the break classes of the text classified last
  harfbuzz_buf_,            \* the text the shared shaping buffer holds
  layout_direction_,        \* the direction of the locale set last
  crashed,                  \* the process died in a null dereference
  null_deref,               \* what a write through nullptr does in this build
  past_text,                \* what a read behind a request's text finds in this run
  last_op,                  \* history: the last public operation and what it did
  frame,                    \* history: subpasses since the last StartLayoutPass
  workload,                 \* the requests the callers of this run make
  word_enum,                \* a WordEnumerator stepped on its own
  advances                  \* history: what each Advance on word_enum returned

vars == <<glyph_cache_, atlas_textures_, map_buffers_, map_textures_,
          current_atlas_revision_,
          current_pass_, wordbreak_info_, harfbuzz_buf_, layout_direction_,
          crashed, null_deref, past_text, last_op, frame, workload, word_enum,
          advances>>

\* The variables of the manager and of the enumerator stepped on its own.
manager_vars == <<glyph_cache_, atlas_textures_, map_buffers_, map_textures_,
                  current_atlas_revision_, current_pass_, wordbreak_info_,
                  harfbuzz_buf_, layout_direction_, crashed, null_deref,
                  past_text, last_op, frame>>
enum_vars == <<workload, word_enum, advances>>

\* The manager's fields as the record the operators work on.
Manager ==
  [glyph_cache_ |-> glyph_cache_, atlas_textures_ |-> atlas_textures_,
   map_buffers_ |-> map_buffers_, map_textures_ |-> map_textures_,
   current_atlas_revision_ |-> current_atlas_revision_,
   current_pass_ |-> current_pass_,
   wordbreak_info_ |-> wordbreak_info_, harfbuzz_buf_ |-> harfbuzz_buf_,
   layout_direction_ |-> layout_direction_,
   past_text |-> past_text,
   log |-> <<>>]

\* The record of an operation in last_op: what was called, what it returned,
\* CreateBuffer's attempts, what was done to the atlas, the pass and the dirty
\* state it started in; repeat: the operation before was GetBuffer of the same
\* parameters and returned a buffer; rebuilt: the operation before was the
\* ReleaseBuffer that destroyed the buffer of the same parameters.
Op(op, param, start_subpass, ret, attempts, log) ==
  [op |-> op, param |-> param, start_subpass |-> start_subpass, ret |-> ret,
   attempts |-> attempts, log |-> log,
   pass_before |-> current_pass_, dirty_before |-> glyph_cache_.dirty,
   repeat |-> /\ op = "GetBuffer" /\ last_op.op = "GetBuffer"
              /\ last_op.param = param /\ last_op.ret \in BufferIds,
   rebuilt |-> /\ op = "GetBuffer" /\ last_op.op = "ReleaseBuffer"
               /\ last_op.param = param /\ map_buffers_[param].id = NoBuffer]

\* How often an event is in a log.
Count(log, event) == Cardinality({i \in 1 .. Len(log) : log[i] = event})

\* The counters stay within the bounds of the model.
WithinBounds(m) ==
  /\ m.glyph_cache_.revision <= MaxRevision
  /\ m.current_pass_ <= MaxPass
  /\ \A p \in Params : m.map_buffers_[p].ref_count <= MaxRefCount

\* The manager's fields become those of m.
Becomes(m) ==
  /\ glyph_cache_' = m.glyph_cache_
  /\ atlas_textures_' = m.atlas_textures_
  /\ map_buffers_' = m.map_buffers_
  /\ map_textures_' = m.map_textures_
  /\ current_atlas_revision_' = m.current_atlas_revision_
  /\ current_pass_' = m.current_pass_
  /\ wordbreak_info_' = m.wordbreak_info_
  /\ harfbuzz_buf_' = m.harfbuzz_buf_
  /\ layout_direction_' = m.layout_direction_

\* The frame history after `subpasses` calls of UpdatePass(true).
FrameAfter(subpasses) ==
  IF subpasses = 0 THEN frame
  ELSE [frame EXCEPT !.subpasses = IF frame.rendered THEN @ ELSE @ + subpasses]

\* After FontManager::FontManager, Open of a font and SetRenderer.  What lies
\* behind the texts is for the run to say: Unmapped where every request is
\* read inside its text.
Initialize ==
  /\ glyph_cache_ = [entries |-> <<>>, ref_ |-> <<>>, revision |-> 0, dirty |-> FALSE]
  /\ atlas_textures_ = <<BlankTexture>>
  /\ map_buffers_ = [p \in Params |-> NullBuffer]
  /\ map_textures_ = [t \in TextureTexts |-> NoTexture]
  /\ current_atlas_revision_ = 0
  /\ current_pass_ = 0
  /\ wordbreak_info_ = <<>>
  /\ harfbuzz_buf_ = <<>>
  /\ layout_direction_ = kTextLayoutDirectionLTR
  /\ crashed = FALSE
  /\ null_deref \in {"crash", "proceed"}
  /\ last_op = [op |-> "Init", param |-> "", start_subpass |-> FALSE, ret |-> NoBuffer,
                attempts |-> <<>>, log |-> <<>>, pass_before |-> 0,
                dirty_before |-> FALSE, repeat |-> FALSE, rebuilt |-> FALSE]
  /\ frame = [subpasses |-> 0, rendered |-> FALSE]

\* The manager constructed, its callers asking for single lines of text; no
\* enumerator is stepped on its own.
Init ==
  /\ Initialize
  /\ past_text = Unmapped
  /\ workload = SingleLineParams
  /\ word_enum = WordEnumerator(<<>>, TRUE)
  /\ advances = <<>>

\* FontManager::GetBuffer(text, length, parameter).
GetBuffer(p) ==
  /\ ~crashed
  /\ \E got \in {GetBufferOf(Manager, p, null_deref)} :
     /\ WithinBounds(got.m)
     /\ Becomes(got.m)
     /\ crashed' = (got.ret = Crashed)
     /\ last_op' = Op("GetBuffer", p, FALSE, got.ret, got.attempts, got.m.log)
     /\ frame' = FrameAfter(Count(got.m.log, "flush"))
  /\ UNCHANGED <<null_deref, past_text, enum_vars>>

\* FontManager::ReleaseBuffer(buffer), on a buffer the map holds.
ReleaseBuffer(p) ==
  /\ ~crashed
  /\ map_buffers_[p].id # NoBuffer
  /\ map_buffers_[p].ref_count >= 1
  /\ \E m \in {ReleaseBufferOf(Manager, p)} :
     /\ Becomes(m)
     /\ last_op' = Op("ReleaseBuffer", p, FALSE, map_buffers_[p].id, <<>>, m.log)
  /\ UNCHANGED <<crashed, null_deref, past_text, frame,
                 enum_vars>>

\* FontManager::StartLayoutPass.
StartLayoutPass ==
  /\ ~crashed
  /\ current_pass_' = 0
  /\ map_buffers_' = [p \in Params |->
                        [map_buffers_[p] EXCEPT !.tagged_in_frame = FALSE]]
  /\ last_op' = Op("StartLayoutPass", "", FALSE, NoBuffer, <<>>, <<>>)
  /\ frame' = [subpasses |-> 0, rendered |-> FALSE]
  /\ UNCHANGED <<glyph_cache_, atlas_textures_, map_textures_,
                 current_atlas_revision_,
                 wordbreak_info_, harfbuzz_buf_, layout_direction_, crashed,
                 null_deref, past_text, enum_vars>>

\* FontManager::SetLocale(locale), the first call the application makes: the
\* locale's layout direction becomes the manager's.
SetLocale(direction) ==
  /\ ~crashed
  /\ last_op.op = "Init"
  /\ layout_direction_' = direction
  /\ last_op' = Op("SetLocale", "", FALSE, NoBuffer, <<>>, <<>>)
  /\ UNCHANGED <<glyph_cache_, atlas_textures_, map_buffers_, map_textures_,
                 current_atlas_revision_, current_pass_, wordbreak_info_,
                 harfbuzz_buf_, crashed, null_deref, past_text, frame,
                 enum_vars>>

\* FontManager::UpdatePass(start_subpass).
UpdatePass(start_subpass) ==
  /\ ~crashed
  /\ \E m \in {UpdatePassOf(Manager, start_subpass)} :
     /\ WithinBounds(m)
     /\ Becomes(m)
     /\ last_op' = Op("UpdatePass", "", start_subpass, NoBuffer, <<>>, m.log)
     /\ frame' = IF start_subpass THEN FrameAfter(1)
                 ELSE [frame EXCEPT !.rendered = TRUE]
  /\ UNCHANGED <<crashed, null_deref, past_text, enum_vars>>

Next ==
  \/ \E p \in workload : GetBuffer(p)
  \/ \E p \in workload : ReleaseBuffer(p)
  \/ StartLayoutPass
  \/ \E start_subpass \in BOOLEAN : UpdatePass(start_subpass)

Spec == Init /\ [][Next]_vars

\* FontManager::Close(font_name): the application closes a font it had opened
\* beside the selected one (FontManager::Open of such a font changes nothing
\* of the state kept here).
Close ==
  /\ ~crashed
  /\ \E m \in {CloseOf(Manager)} :
     /\ Becomes(m)
     /\ last_op' = Op("Close", "", FALSE, NoBuffer, <<>>, m.log)
  /\ UNCHANGED <<crashed, null_deref, past_text, frame,
                 enum_vars>>

\* The callers of the manager also close fonts.
CloseNext == Next \/ Close

CloseSpec == Init /\ [][CloseNext]_vars

\* The manager constructed, its callers asking for one multi-line layout, or
\* for one and a single line of text that competes for the atlas.
LayoutInit ==
  /\ Initialize
  /\ past_text = Unmapped
  /\ workload \in {{p} : p \in LayoutParams} \cup {{"B", "I"}}
  /\ word_enum = WordEnumerator(<<>>, TRUE)
  /\ advances = <<>>

LayoutSpec == LayoutInit /\ [][Next]_vars

\* The manager constructed, its callers setting the locale and asking for one
\* aligned or justified layout, or for the carets of a single line.
FormatInit ==
  /\ Initialize
  /\ past_text = Unmapped
  /\ workload \in {{p} : p \in FormatParams}
  /\ word_enum = WordEnumerator(<<>>, TRUE)
  /\ advances = <<>>

FormatNext ==
  \/ Next
  \/ \E direction \in {kTextLayoutDirectionLTR, kTextLayoutDirectionRTL} :
       SetLocale(direction)

FormatSpec == FormatInit /\ [][FormatNext]_vars

\* FontManager::GetTexture(text, length, ysize), while the shaping buffer has
\* room for the text.
GetTexture(t) ==
  /\ ~crashed
  /\ Len(harfbuzz_buf_) + Len(TextOf(t)) <= MaxShaped
  /\ \E got \in {GetTextureOf(Manager, t)} :
     /\ Becomes(got.m)
     /\ last_op' = Op("GetTexture", t, FALSE, NoBuffer, <<>>, got.m.log)
  /\ UNCHANGED <<crashed, null_deref, past_text, frame, enum_vars>>

\* The manager constructed, its callers asking for a single line of text and
\* for textures of two texts, and closing fonts.
TextureInit ==
  /\ Initialize
  /\ past_text = Unmapped
  /\ workload = {"B"}
  /\ word_enum = WordEnumerator(<<>>, TRUE)
  /\ advances = <<>>

TextureNext ==
  \/ Next
  \/ \E t \in TextureTexts : GetTexture(t)
  \/ Close

TextureSpec == TextureInit /\ [][TextureNext]_vars

\* The manager constructed, its callers asking for a single line of text and
\* for the layout of the empty text; behind the empty text lies whatever the
\* caller's memory holds.
EmptyTextInit ==
  /\ Initialize
  /\ past_text \in PastTexts
  /\ workload = {"B", "Q"}
  /\ word_enum = WordEnumerator(<<>>, TRUE)
  /\ advances = <<>>

EmptyTextSpec == EmptyTextInit /\ [][Next]_vars

\* ------------------------------------------- the WordEnumerator on its own
\* The buffers set_linebreaks_utf8 produces: the last byte of a text is a
\* must-break.
RECURSIVE BuffersOfLen(_)
BuffersOfLen(n) ==
  IF n = 0 THEN {<<>>}
  ELSE {Append(b, c) : b \in BuffersOfLen(n - 1), c \in BreakClasses}

AnyBuffers == UNION {BuffersOfLen(n) : n \in 0 .. MaxBufferLen}

ClassifiedBuffers ==
  {b \in AnyBuffers : b # <<>> => b[Len(b)] = "MUSTBREAK"}

\* An enumerator is constructed: in single-line mode over any buffer (the
\* member buffer is as long as the longest text so far), in multi-line mode
\* over a classified text.
WordInit ==
  /\ Initialize
  /\ past_text = Unmapped
  /\ workload = {}
  /\ \E single_line \in BOOLEAN :
       \E buffer \in (IF single_line THEN AnyBuffers ELSE ClassifiedBuffers) :
         word_enum = WordEnumerator(buffer, single_line)
  /\ advances = <<>>

\* word_enum.Advance().
AdvanceWord ==
  /\ Len(advances) < MaxAdvances
  /\ \E advanced \in {Advance(word_enum)} :
       /\ word_enum' = advanced.we
       /\ advances' = Append(advances,
                             [ret |-> advanced.ret,
                              index |-> GetCurrentWordIndex(advanced.we),
                              length |-> GetCurrentWordLength(advanced.we)])
  /\ UNCHANGED <<manager_vars, workload>>

WordNext == AdvanceWord

WordSpec == WordInit /\ [][WordNext]_vars

\* An enumerator is constructed over a buffer of any content, in either mode:
\* the class takes whatever vector its caller hands it.
RawWordInit ==
  /\ Initialize
  /\ past_text = Unmapped
  /\ workload = {}
  /\ \E single_line \in BOOLEAN : \E buffer \in AnyBuffers :
       word_enum = WordEnumerator(buffer, single_line)
  /\ advances = <<>>

RawWordSpec == RawWordInit /\ [][WordNext]_vars

\* The state stays within its types.
TypeOK ==
  /\ glyph_cache_.revision \in 0 .. MaxRevision
  /\ Len(glyph_cache_.entries) <= CacheCapacity
  /\ Len(glyph_cache_.ref_) = Len(glyph_cache_.entries)
  /\ current_pass_ \in kRenderPass .. MaxPass
  /\ current_atlas_revision_ \in 0 .. MaxRevision
  /\ \A p \in Params : map_buffers_[p].id \in BufferIds \cup {NoBuffer}
  /\ \A p, q \in Params :
       (p # q /\ map_buffers_[p].id # NoBuffer) => map_buffers_[p].id # map_buffers_[q].id

\* ----------------------------------------------------------------- claims
\* The buffers the map holds.
Live(map) == {p \in Params : map[p].id # NoBuffer}

\* The step is the operation op on the parameters p (every operation leaves its
\* record in last_op).
Did(op, p) == last_op'.op = op /\ last_op'.param = p

\* C1: a GetBuffer call whose first CreateBuffer succeeds makes that one
\* attempt and does not flush the atlas; one whose first CreateBuffer returns
\* nullptr flushes the atlas exactly once and makes exactly one more attempt,
\* whose result it returns.  No call makes more than two attempts or flushes
\* more than once.
GetBufferRetriesOnce ==
  last_op.op = "GetBuffer" =>
    /\ Len(last_op.attempts) \in {1, 2}
    /\ Count(last_op.log, "flush") <= 1
    /\ last_op.attempts[1].ret \in BufferIds =>
         /\ Len(last_op.attempts) = 1
         /\ Count(last_op.log, "flush") = 0
         /\ last_op.ret = last_op.attempts[1].ret
    /\ last_op.attempts[1].ret = NoBuffer =>
         /\ Len(last_op.attempts) = 2
         /\ Count(last_op.log, "flush") = 1
         /\ last_op.ret = last_op.attempts[2].ret
    /\ last_op.attempts[1].ret = Crashed =>
         /\ Len(last_op.attempts) = 1
         /\ Count(last_op.log, "flush") = 0

\* C1 witness: a first attempt failed on a full cache, the atlas was flushed
\* and the second attempt returned the buffer.
GetBufferRetriedAndBuilt ==
  /\ last_op.op = "GetBuffer"
  /\ Len(last_op.attempts) = 2
  /\ last_op.attempts[1].why = "full"
  /\ last_op.ret \in BufferIds

\* C2: a GetBuffer that directly follows a GetBuffer of the same parameters
\* which returned a buffer returns that same buffer, from the map and without a
\* build; the reference count grows by one when the parameters ask for
\* reference counting and stays otherwise; code points, vertices, caret
\* positions and the number of buffers in the map are as before.
DedupIdempotence ==
  [][\A p \in Params :
       (Did("GetBuffer", p) /\ last_op.op = "GetBuffer" /\ last_op.param = p
          /\ last_op.ret \in BufferIds)
       => /\ last_op'.ret = last_op.ret
          /\ map_buffers_'[p].id = map_buffers_[p].id
          /\ Len(last_op'.attempts) = 1
          /\ last_op'.attempts[1].path = "dedup"
          /\ map_buffers_'[p].ref_count =
               map_buffers_[p].ref_count + (IF get_ref_count_flag(p) THEN 1 ELSE 0)
          /\ map_buffers_'[p].code_points = map_buffers_[p].code_points
          /\ map_buffers_'[p].vertices = map_buffers_[p].vertices
          /\ map_buffers_'[p].caret_positions = map_buffers_[p].caret_positions
          /\ Cardinality(Live(map_buffers_')) = Cardinality(Live(map_buffers_))
    ]_vars

\* C2 witnesses: the repeated lookup of a reference-counted buffer, which now
\* has count 2.
RepeatedLookupCounted ==
  /\ last_op.repeat
  /\ last_op.ret \in BufferIds
  /\ get_ref_count_flag(last_op.param)
  /\ map_buffers_[last_op.param].ref_count = 2

\* C3: every buffer in the map has ref_count >= 1; an operation changes the
\* ref_count of a buffer that stays in the map by +1 (GetBuffer of its
\* parameters with reference counting) or -1 (ReleaseBuffer of it) or not at
\* all; a buffer enters the map with ref_count 1.
RefCountSteps ==
  [][\A p \in Params :
       /\ p \in Live(map_buffers_') => map_buffers_'[p].ref_count >= 1
       /\ p \in Live(map_buffers_) \cap Live(map_buffers_') =>
            \/ map_buffers_'[p].ref_count = map_buffers_[p].ref_count
            \/ /\ map_buffers_'[p].ref_count = map_buffers_[p].ref_count + 1
               /\ Did("GetBuffer", p) /\ get_ref_count_flag(p)
            \/ /\ map_buffers_'[p].ref_count = map_buffers_[p].ref_count - 1
               /\ Did("ReleaseBuffer", p)
       /\ p \in Live(map_buffers_') \ Live(map_buffers_) =>
            map_buffers_'[p].ref_count = 1 /\ Did("GetBuffer", p)
    ]_vars

\* C3 witness: a release took a buffer from count 2 to count 1.
ReleasedToOne ==
  /\ last_op.op = "ReleaseBuffer"
  /\ map_buffers_[last_op.param].id = last_op.ret
  /\ map_buffers_[last_op.param].ref_count = 1

\* C4: ReleaseBuffer of a buffer with ref_count 1 erases it from the map and
\* releases its references in the cache rows, and a GetBuffer of parameters
\* the map does not hold that returns a buffer has built it, with ref_count 1;
\* ReleaseBuffer of a buffer with ref_count > 1 only decrements the count.
ReleaseDestroysAtOne ==
  [][\A p \in Params :
       /\ Did("ReleaseBuffer", p) =>
            IF map_buffers_[p].ref_count = 1
            THEN /\ map_buffers_'[p] = NullBuffer
                 /\ map_buffers_[p].id \notin ReferencingBuffers(glyph_cache_')
            ELSE /\ map_buffers_'[p] = [map_buffers_[p] EXCEPT !.ref_count = @ - 1]
                 /\ glyph_cache_' = glyph_cache_
       /\ (Did("GetBuffer", p) /\ p \notin Live(map_buffers_) /\ last_op'.ret \in BufferIds) =>
            /\ map_buffers_'[p].id = last_op'.ret
            /\ map_buffers_'[p].ref_count = 1
            /\ last_op'.attempts[Len(last_op'.attempts)].path = "build"
    ]_vars

\* C4 witness: the buffer of these parameters was destroyed by the release
\* before, and GetBuffer has built it anew.
RebuiltAfterDestroy ==
  /\ last_op.rebuilt
  /\ last_op.ret \in BufferIds
  /\ map_buffers_[last_op.param].ref_count = 1

\* C5: a build that GetCachedEntry stops with a full cache returns nullptr and
\* leaves the map, with every buffer in it, as it was before the attempt.
CacheFullAbortsBuild ==
  last_op.op = "GetBuffer" =>
    \A i \in 1 .. Len(last_op.attempts) :
      (last_op.attempts[i].path = "build" /\ last_op.attempts[i].why = "full") =>
        /\ last_op.attempts[i].ret = NoBuffer
        /\ last_op.attempts[i].map_kept
        /\ (i = Len(last_op.attempts) => last_op.param \notin Live(map_buffers_))

\* C5 witness: a build was aborted by a full cache while the map held another
\* buffer.
BuildAbortedByFullCache ==
  /\ last_op.op = "GetBuffer"
  /\ last_op.attempts[1].path = "build"
  /\ last_op.attempts[1].why = "full"
  /\ Live(map_buffers_) \ {last_op.param} # {}

\* C6: a GetBuffer that meets an unsupported glyph returns nullptr, does not
\* flush the atlas, leaves the cache revision as it was and changes no other
\* buffer.
UnsupportedGlyphLeavesAtlas ==
  [][\A p \in Params :
       (Did("GetBuffer", p) /\ \E i \in 1 .. Len(last_op'.attempts) :
                          last_op'.attempts[i].why = "unsupported")
       => /\ last_op'.ret = NoBuffer
          /\ Count(last_op'.log, "flush") = 0
          /\ glyph_cache_'.revision = glyph_cache_.revision
          /\ \A q \in Params \ {p} : map_buffers_'[q] = map_buffers_[q]
    ]_vars

\* C7, as amended: every UpdatePass(true) flushes the atlas once and moves to
\* the next pass, also when a subpass is already running; then it logs the
\* warning as well.
SubpassAlwaysFlushes ==
  (last_op.op = "UpdatePass" /\ last_op.start_subpass) =>
    /\ Count(last_op.log, "flush") = 1
    /\ glyph_cache_.entries = <<>>
    /\ current_pass_ = last_op.pass_before + 1
    /\ Count(last_op.log, "warning") = (IF last_op.pass_before > 0 THEN 1 ELSE 0)

\* C7 witness: a subpass started while a subpass was running: warning and flush.
SecondSubpassFlushed ==
  /\ last_op.op = "UpdatePass"
  /\ last_op.start_subpass
  /\ last_op.pass_before > 0
  /\ Count(last_op.log, "warning") = 1
  /\ Count(last_op.log, "flush") = 1

\* C7 as stated: UpdatePass(true) called while a subpass is running does not
\* flush the atlas.
LaterSubpassDoesNotFlush ==
  (last_op.op = "UpdatePass" /\ last_op.start_subpass /\ last_op.pass_before > 0) =>
    Count(last_op.log, "flush") = 0

\* C8: StartLayoutPass leaves pass 0, UpdatePass(true) the pass it started in
\* plus one, UpdatePass(false) the Render pass; until the frame's first
\* UpdatePass(false) the pass is the number of UpdatePass(true) calls since
\* StartLayoutPass.
PassStateMachine ==
  /\ last_op.op = "StartLayoutPass" => current_pass_ = 0
  /\ (last_op.op = "UpdatePass" /\ last_op.start_subpass) =>
       current_pass_ = last_op.pass_before + 1
  /\ (last_op.op = "UpdatePass" /\ ~last_op.start_subpass) =>
       current_pass_ = kRenderPass
  /\ ~frame.rendered => current_pass_ = frame.subpasses

\* C8 witness: two subpasses were started in a frame that has not rendered.
TwoSubpassesCounted ==
  /\ ~frame.rendered
  /\ frame.subpasses = 2
  /\ last_op.op = "UpdatePass"

\* C9: UpdatePass uploads every slice, snapshots the revision and clears the
\* dirty state exactly when it is called with a dirty atlas in a pass <= 0, and
\* does so before it flushes; called with a dirty atlas in a pass > 0 it
\* uploads nothing and the atlas stays dirty.
UploadWhenDirtyInLayout ==
  last_op.op = "UpdatePass" =>
    /\ Count(last_op.log, "upload") =
         (IF last_op.dirty_before /\ last_op.pass_before <= 0 THEN 1 ELSE 0)
    /\ Count(last_op.log, "upload") = 1 =>
         /\ SubSeq(last_op.log, 1, 3) = <<"upload", "snapshot", "clear dirty">>
         /\ ~glyph_cache_.dirty
         /\ ~last_op.start_subpass =>
              /\ current_atlas_revision_ = glyph_cache_.revision
              /\ \A i \in 1 .. get_num_slices(glyph_cache_) :
                   atlas_textures_[i] = get_buffer(glyph_cache_, i - 1)
    /\ (last_op.dirty_before /\ last_op.pass_before > 0) =>
         /\ Count(last_op.log, "upload") = 0
         /\ glyph_cache_.dirty

\* C9 witness: one UpdatePass(true) uploaded a dirty atlas and then flushed it.
UploadedThenFlushed ==
  /\ last_op.op = "UpdatePass"
  /\ last_op.dirty_before
  /\ last_op.log = <<"upload", "snapshot", "clear dirty", "flush", "snapshot">>

\* C10: no buffer that was tagged in this frame and whose tag is the current
\* pass has seen a flush of the atlas since it was tagged.
NoFlushWithinAPass ==
  \A p \in Live(map_buffers_) :
    (map_buffers_[p].tagged_in_frame /\ map_buffers_[p].pass = current_pass_)
      => ~map_buffers_[p].flush_since_tag

\* C11: a single-line enumerator yields one span over any buffer: the first
\* Advance returns true with index 0 and the buffer's size as length, every
\* later Advance returns false.
SingleLineYieldsOneSpan ==
  word_enum.single_line_ =>
    \A i \in 1 .. Len(advances) :
      IF i = 1
      THEN /\ advances[i].ret
           /\ advances[i].index = 0
           /\ advances[i].length = Len(word_enum.buffer_)
      ELSE ~advances[i].ret

\* C11 witness: a single-line enumerator over a buffer with a must-break byte
\* before its end was advanced three times.
SingleLineOverBreaksExhausted ==
  /\ word_enum.single_line_
  /\ Len(word_enum.buffer_) >= 2
  /\ word_enum.buffer_[1] = "MUSTBREAK"
  /\ Len(advances) >= 3

\* Where the i-th Advance starts when every Advance before it succeeded.
SpanStart(i) == IF i = 1 THEN 0 ELSE advances[i - 1].index + advances[i - 1].length

\* C12: a multi-line enumerator yields contiguous spans from offset 0, each
\* ending at and including the first must-break or allow-break byte at or
\* after its start; Advance returns false exactly when the spans before it
\* have consumed the buffer, and after a false every Advance returns false.
MultiLineSpans ==
  ~word_enum.single_line_ =>
    \A i \in 1 .. Len(advances) :
      IF \A j \in 1 .. i - 1 : advances[j].ret
      THEN /\ advances[i].ret = (SpanStart(i) < Len(word_enum.buffer_))
           /\ advances[i].ret =>
                /\ advances[i].index = SpanStart(i)
                /\ advances[i].length >= 1
                /\ advances[i].index + advances[i].length <= Len(word_enum.buffer_)
                /\ word_enum.buffer_[advances[i].index + advances[i].length]
                     \in {"MUSTBREAK", "ALLOWBREAK"}
                /\ \A k \in advances[i].index + 1 .. advances[i].index + advances[i].length - 1 :
                     word_enum.buffer_[k] \notin {"MUSTBREAK", "ALLOWBREAK"}
      ELSE ~advances[i].ret

\* C12 witness: two words were yielded, the second longer than one byte, and
\* two more Advance calls returned false.
TwoWordsThenExhausted ==
  /\ ~word_enum.single_line_
  /\ Len(advances) >= 4
  /\ advances[1].ret /\ advances[2].ret /\ advances[2].length >= 2
  /\ ~advances[3].ret /\ ~advances[4].ret

\* Every code point of the buffer has an entry in the cache and the four
\* vertices of its quad carry the corners of that entry's UV rectangle.
Resolved(buffer, cache) ==
  /\ Len(buffer.vertices) = kVerticesPerCodePoint * Len(buffer.code_points)
  /\ \A i \in 1 .. Len(buffer.code_points) :
       /\ Find(cache, buffer.code_points[i]) # NoEntry
       /\ \A k \in 0 .. kVerticesPerCodePoint - 1 :
            buffer.vertices[(i - 1) * kVerticesPerCodePoint + k + 1].uv =
              <<get_uv(Find(cache, buffer.code_points[i])), k>>

\* The last CreateBuffer call of the GetBuffer that was the last operation.
LastAttempt == last_op.attempts[Len(last_op.attempts)]

\* C13: when GetBuffer found a buffer in the map whose revision was not the
\* cache's, and UpdateUV returned the buffer, every code point of the buffer
\* is resolved against the cache and the buffer's revision is the cache's.
UpdateUVRestoresRevision ==
  (/\ last_op.op = "GetBuffer"
   /\ last_op.ret \in BufferIds
   /\ LastAttempt.path = "dedup"
   /\ LastAttempt.why = "ok"
   /\ LastAttempt.stale)
  => /\ Resolved(map_buffers_[last_op.param], glyph_cache_)
     /\ map_buffers_[last_op.param].revision = glyph_cache_.revision

\* C14: a buffer that GetBuffer has built and returned is in the map under its
\* parameters with ref_count 1 and the cache's revision.
NewBufferStamped ==
  (/\ last_op.op = "GetBuffer"
   /\ last_op.ret \in BufferIds
   /\ LastAttempt.path = "build")
  => /\ map_buffers_[last_op.param].id = last_op.ret
     /\ map_buffers_[last_op.param].ref_count = 1
     /\ map_buffers_[last_op.param].revision = glyph_cache_.revision

\* C15: the buffer GetBuffer returns has the UV of every quad resolved against
\* the cache as it is.
ReturnedBufferResolved ==
  (last_op.op = "GetBuffer" /\ last_op.ret \in BufferIds)
  => Resolved(map_buffers_[last_op.param], glyph_cache_)

\* The CreateBuffer calls of the last operation that built a buffer or tried to.
Builds == {i \in 1 .. Len(last_op.attempts) : last_op.attempts[i].path = "build"}

\* The last operation was GetBuffer of a multi-line request.
LaidOutMultiLine ==
  last_op.op = "GetBuffer" /\ get_multi_line_setting(last_op.param)

\* The height of a line of the request, the text of the word a pass of the
\* word loop was about and its width, from the text of the request.
LineHeight(p) == get_font_size(p) * line_height_
WordText(p, w) == SubSeq(Request(p).text, w.index + 1, w.index + w.length)
WordWidth(p, w) == StringWidth(Shape(WordText(p, w)))

\* The word before word k of the pass list ended on a must-break byte.
ForcedBreakBefore(p, words, k) ==
  k > 1 /\ set_linebreaks_utf8(Request(p).text)[words[k].index] = "MUSTBREAK"

\* A line was committed at the head of the pass w: the text grew by a line.
Committed(p, w) == w.start.total_height = w.before.total_height + LineHeight(p)

\* C16: in a multi-line layout, a line is committed before a word exactly
\* when the word before it ended on a must-break byte or the pending width
\* plus the word's width, in whole pixels, exceeds the target width.  On a
\* commit the pen is at the line start one line height lower, the height has
\* grown by a line height, the next line starts at the code points still to
\* come and (when the word is laid out) the pending width is the word's width;
\* otherwise the pen stays and the pending width grows by the word's width.
LineCommitRule ==
  LaidOutMultiLine =>
    \A i \in Builds : \A k \in 1 .. Len(last_op.attempts[i].words) :
      LET p == last_op.param
          w == last_op.attempts[i].words[k]
          breaks == \/ ForcedBreakBefore(p, last_op.attempts[i].words, k)
                    \/ (w.before.line_width + WordWidth(p, w)) \div kFreeTypeUnit
                         > get_size(p).x
      IN /\ w.before.lastline_must_break
              = ForcedBreakBefore(p, last_op.attempts[i].words, k)
         /\ IF breaks
            THEN /\ w.start.pos = [x |-> 0, y |-> w.before.pos.y + LineHeight(p)]
                 /\ w.start.total_height = w.before.total_height + LineHeight(p)
                 /\ w.start.line_start_index_ = w.before.code_points
                 /\ ~w.truncated => w.start.line_width = WordWidth(p, w)
            ELSE /\ w.start.pos = w.before.pos
                 /\ w.start.total_height = w.before.total_height
                 /\ w.start.line_start_index_ = w.before.line_start_index_
                 /\ w.start.line_width = w.before.line_width + WordWidth(p, w)
                 /\ ~w.truncated

\* C16 witness: the built text has a word that stayed on the pending line
\* although it reaches half a pixel past the target width, or a first word that
\* stayed and a second word that the width moved to a new line.
WordsWrappedByWidth ==
  /\ LaidOutMultiLine
  /\ last_op.ret \in BufferIds
  /\ LastAttempt.path = "build"
  /\ Len(LastAttempt.words) = 2
  /\ ~Committed(last_op.param, LastAttempt.words[1])
  /\ ~LastAttempt.words[2].before.lastline_must_break
  /\ \/ Committed(last_op.param, LastAttempt.words[2])
     \/ LastAttempt.words[2].start.line_width > get_size(last_op.param).x * kFreeTypeUnit

\* The last operation returned a buffer that it built from a multi-line text.
BuiltMultiLine ==
  /\ LaidOutMultiLine
  /\ last_op.ret \in BufferIds
  /\ LastAttempt.path = "build"

\* The text of the request is two words with one space between them.
TwoWordsOneSpace(p) ==
  LET text == Request(p).text
  IN /\ get_multi_line_setting(p)
     /\ \A i \in 1 .. Len(text) : text[i] # Newline
     /\ \E i \in 2 .. Len(text) - 1 :
          \A j \in 1 .. Len(text) : text[j] = Space <=> j = i

\* The width of the second word of such a text, in kFreeTypeUnit-ths.
SecondWordWidth(p) ==
  LET text == Request(p).text
      space == CHOOSE i \in 1 .. Len(text) : text[i] = Space
  IN StringWidth(Shape(SubSeq(text, space + 1, Len(text))))

\* C17: a two-word text with one space, laid out in multi-line mode in a
\* target width narrower than its second word, is built as exactly two lines:
\* no line is committed before the first word, one is committed before the
\* second, and lastline_must_break is false until the final word.
TwoWordsBreakAtSpace ==
  ( /\ BuiltMultiLine
    /\ TwoWordsOneSpace(last_op.param)
    /\ get_size(last_op.param).x * kFreeTypeUnit < SecondWordWidth(last_op.param) )
  => LET p == last_op.param
         words == LastAttempt.words
     IN /\ Len(words) = 2
        /\ ~Committed(p, words[1])
        /\ Committed(p, words[2])
        /\ map_buffers_[p].size.y = get_font_size(p) + LineHeight(p)
        /\ ~words[1].start.lastline_must_break
        /\ ~words[2].before.lastline_must_break
        /\ words[2].start.lastline_must_break

\* The width in pixels of the widest line of the text of the request when only
\* the must-break bytes end a line.
WidestLine(p) ==
  LET text == Request(p).text
      lines == {r \in (1 .. Len(text)) \X (1 .. Len(text)) :
                  /\ r[1] <= r[2]
                  /\ r[1] = 1 \/ text[r[1] - 1] = Newline
                  /\ r[2] = Len(text) \/ text[r[2]] = Newline
                  /\ \A i \in r[1] .. r[2] - 1 : text[i] # Newline}
      widths == {StringWidth(Shape(SubSeq(text, r[1], r[2]))) : r \in lines}
  IN (CHOOSE w \in widths : \A v \in widths : v <= w) \div kFreeTypeUnit

\* C18: a multi-line text laid out with target width 0 grows to fit: a line is
\* committed before a word only when the word before it forced a break, and
\* the width of the buffer is the width of the widest line.
NoTargetWidthGrowsToFit ==
  (BuiltMultiLine /\ get_size(last_op.param).x = 0)
  => LET p == last_op.param
         words == LastAttempt.words
     IN /\ \A k \in 1 .. Len(words) :
             Committed(p, words[k]) <=> ForcedBreakBefore(p, words, k)
        /\ map_buffers_[p].size.x = WidestLine(p)

\* C19: in a multi-line layout with a target height and no carets, the word
\* at which a line commit makes the height exceed the target height is
\* truncated: neither it nor any later word adds a code point, and the build
\* succeeds, the buffer of the words before it being put in the map and
\* returned.  With carets no word is truncated and a build that succeeds has
\* laid out every word of the text.
TruncationKeepsPartialText ==
  LaidOutMultiLine =>
    \A i \in Builds : \A k \in 1 .. Len(last_op.attempts[i].words) :
      LET p == last_op.param
          attempt == last_op.attempts[i]
          w == attempt.words[k]
      IN /\ w.truncated <=> /\ Committed(p, w)
                            /\ get_size(p).y # 0
                            /\ w.start.total_height > get_size(p).y
                            /\ ~get_caret_info_flag(p)
         /\ w.truncated =>
              /\ k = Len(attempt.words)
              /\ i = Len(last_op.attempts)
              /\ w.code_points = w.before.code_points
              /\ attempt.why = "ok"
              /\ attempt.ret \in BufferIds
              /\ last_op.ret = attempt.ret
              /\ map_buffers_[p].id = attempt.ret
              /\ Len(map_buffers_[p].code_points) = w.before.code_points
         /\ (get_caret_info_flag(p) /\ attempt.ret \in BufferIds /\ k = Len(attempt.words))
              => w.index + w.length = Len(Request(p).text)

\* C19 witness: a text was truncated at its second line and the buffer with
\* the glyphs of its first line was returned.
TruncatedAtSecondLine ==
  /\ BuiltMultiLine
  /\ LastAttempt.words[Len(LastAttempt.words)].truncated
  /\ Len(LastAttempt.words) > 1
  /\ Len(map_buffers_[last_op.param].code_points) > 0

\* The number of indices in all the per-slice index lists together.
RECURSIVE IndexCount(_)
IndexCount(indices) ==
  IF indices = <<>> THEN 0 ELSE Len(Head(indices)) + IndexCount(Tail(indices))

\* The shaped glyphs of the words of a pass list that were laid out, from the
\* text of the request, and how many of them have a glyph id and a size.
RECURSIVE ProcessedGlyphs(_, _)
ProcessedGlyphs(p, words) ==
  IF words = <<>> THEN <<>>
  ELSE (IF Head(words).truncated THEN <<>> ELSE Shape(WordText(p, Head(words))))
       \o ProcessedGlyphs(p, Tail(words))
VisibleGlyphs(glyphs) ==
  Cardinality({j \in 1 .. Len(glyphs) :
                 glyphs[j].codepoint # 0 /\ BitmapSize(glyphs[j].codepoint) # 0})

\* The last operation returned a buffer that it built.
BuiltBuffer ==
  /\ last_op.op = "GetBuffer"
  /\ last_op.ret \in BufferIds
  /\ LastAttempt.path = "build"

\* C20: a buffer that was built has 4 vertices and, over its per-slice index
\* lists, 6 indices for each recorded code point, and records one code point
\* for each shaped glyph processed that has a non-zero glyph id and a cache
\* entry with a size.
QuadPerVisibleGlyph ==
  BuiltBuffer =>
    LET buffer == map_buffers_[last_op.param]
    IN /\ Len(buffer.vertices) = 4 * Len(buffer.code_points)
       /\ IndexCount(buffer.indices) = 6 * Len(buffer.code_points)
       /\ Len(buffer.code_points)
            = VisibleGlyphs(ProcessedGlyphs(last_op.param, LastAttempt.words))

\* C20 witness: a buffer was built from a text that has a glyph without a
\* glyph id, a glyph without a size and glyphs with both.
BuiltWithSkippedAndSizeless ==
  /\ BuiltBuffer
  /\ LET glyphs == ProcessedGlyphs(last_op.param, LastAttempt.words)
     IN /\ \E j \in 1 .. Len(glyphs) : glyphs[j].codepoint = 0
        /\ \E j \in 1 .. Len(glyphs) :
             glyphs[j].codepoint # 0 /\ BitmapSize(glyphs[j].codepoint) = 0
        /\ VisibleGlyphs(glyphs) > 1
  /\ Len(map_buffers_[last_op.param].code_points) > 1

\* C26: a CreateBuffer call that finds the buffer in the map and whose
\* UpdateUV fails returns nullptr and leaves the buffer's reference count as it
\* was, whether or not the parameters ask for reference counting; nothing is
\* written through a null pointer.
FailedUpdateUVReturnsNull ==
  last_op.op = "GetBuffer" =>
    /\ ~crashed
    /\ \A i \in 1 .. Len(last_op.attempts) :
         (last_op.attempts[i].path = "dedup" /\ last_op.attempts[i].why # "ok")
         => /\ last_op.attempts[i].ret = NoBuffer
            /\ last_op.attempts[i].ref_count_kept
            /\ last_op.attempts[i].why # "null dereference"

\* Every slice of the cache is in its texture as the cache holds it.
AtlasUploaded ==
  \A i \in 0 .. get_num_slices(glyph_cache_) - 1 :
    /\ i + 1 <= Len(atlas_textures_)
    /\ atlas_textures_[i + 1] = get_buffer(glyph_cache_, i)

\* C28: when UpdatePass(false) has returned (the Render pass is entered), the
\* atlas is not dirty, every slice is uploaded to its texture and
\* current_atlas_revision_ is the revision of the cache.
RenderPassEntersClean ==
  (last_op.op = "UpdatePass" /\ ~last_op.start_subpass)
  => /\ current_pass_ = kRenderPass
     /\ ~glyph_cache_.dirty
     /\ AtlasUploaded
     /\ current_atlas_revision_ = glyph_cache_.revision

\* C29: every span Advance yields lies inside the break-class buffer, whatever
\* the buffer holds, so that the last byte of the span, which
\* CurrentWordMustBreak reads, is a byte of the buffer.
SpansInsideBuffer ==
  \A i \in 1 .. Len(advances) :
    advances[i].ret =>
      /\ advances[i].index + advances[i].length <= Len(word_enum.buffer_)
      /\ advances[i].length > 0 => advances[i].index + advances[i].length - 1
                                     < Len(word_enum.buffer_)

\* C27: between the public operations, every buffer registered on a row of the
\* cache is a buffer the map holds: neither an aborted build, nor a release
\* that destroys the buffer, nor the closing of a font leaves the address of a
\* destroyed buffer on a row.
RowsReferenceLiveBuffers ==
  \A b \in ReferencingBuffers(glyph_cache_) :
    \E p \in Params : map_buffers_[p].id = b

\* C27 witness: a font was closed while buffers of the map were registered on
\* rows of the cache, and the glyphs they cited are still cached.
ClosedWithRegisteredBuffers ==
  /\ last_op.op = "Close"
  /\ Count(last_op.log, "release rows") > 0
  /\ Len(glyph_cache_.entries) > 0
  /\ Live(map_buffers_) = {}

\* ------------------------------------------------------------------- C21
\* The lines every attempt of the last GetBuffer committed, each with the
\* request it was committed for: <<p, line>>.
CommittedLines ==
  IF last_op.op # "GetBuffer" THEN {}
  ELSE UNION {{<<last_op.param, last_op.attempts[i].lines[k]>> :
                 k \in 1 .. Len(last_op.attempts[i].lines)} :
              i \in 1 .. Len(last_op.attempts)}

\* Justification is in effect for a committed line.
Justified(p, line) ==
  Request(p).justify /\ ~line.last_line /\ Len(line.word_boundary_) > 1

\* The commit moved every glyph and every caret of the line by `shift` and
\* nothing of the lines before it.
ShiftedBy(line, shift) ==
  /\ Len(line.x_after) = Len(line.x_before)
  /\ Len(line.caret_after) = Len(line.caret_before)
  /\ line.quads_kept
  /\ \A i \in 1 .. Len(line.x_after) :
       line.x_after[i] = line.x_before[i] + (IF i > line.from THEN shift ELSE 0)
  /\ \A i \in 1 .. Len(line.caret_after) :
       line.caret_after[i]
         = line.caret_before[i] + (IF i > line.caret_from THEN shift ELSE 0)

\* target_width - line_width of a committed line.
Slack(p, line) == get_size(p).x - line.line_width

\* -1 in right-to-left layout, otherwise 1.
DirectionSign == IF layout_direction_ = kTextLayoutDirectionRTL THEN -1 ELSE 1

\* C21: every committed line (the final one included) of a right aligned
\* request is moved by target_width - line_width, of a centred request by half
\* of that (the integer division of the code), with the sign flipped in
\* right-to-left layout, as long as justification is not in effect; a left
\* aligned line without justification is not moved; and no commit moves a
\* glyph or a caret of an earlier line.  line_width is the pending line width
\* the layout accumulated for the line.
AlignmentShiftsCommittedLine ==
  \A pl \in CommittedLines :
    With([p |-> pl[1], line |-> pl[2]], LAMBDA c :
      /\ (get_text_alignment(c.p) = "Right" /\ ~Request(c.p).justify)
         => ShiftedBy(c.line, DirectionSign * Slack(c.p, c.line))
      /\ (get_text_alignment(c.p) = "Center" /\ ~Request(c.p).justify)
         => ShiftedBy(c.line, DirectionSign * TruncDiv(Slack(c.p, c.line), 2))
      /\ (get_text_alignment(c.p) = "Left" /\ ~Request(c.p).justify)
         => ShiftedBy(c.line, 0)
      /\ Request(c.p).justify
         => /\ \A i \in 1 .. c.line.from : c.line.x_after[i] = c.line.x_before[i]
            /\ \A i \in 1 .. c.line.caret_from :
                 c.line.caret_after[i] = c.line.caret_before[i])

\* A right aligned text was laid out in two lines, right to left, and the
\* commit of the second line moved its glyphs.
SecondLineRightAligned ==
  /\ last_op.op = "GetBuffer" /\ last_op.ret \in BufferIds
  /\ get_text_alignment(last_op.param) = "Right"
  /\ layout_direction_ = kTextLayoutDirectionRTL
  /\ \E pl \in CommittedLines :
       /\ pl[2].from > 0 /\ pl[2].caret_from > 0
       /\ Slack(pl[1], pl[2]) # 0
       /\ pl[2].x_after # pl[2].x_before

\* ------------------------------------------------------------------- C22
\* The offset a commit reached for the glyphs of the line's last word: what
\* it moved the last code point of the line by, in the direction of the
\* layout.
LastWordOffset(line) ==
  DirectionSign * (line.x_after[Len(line.x_after)] - line.x_before[Len(line.x_before)])

\* The commit moved all glyphs of the line by the same amount.
MovedAsOne(line) ==
  \A i, j \in (line.from + 1) .. Len(line.x_after) :
    line.x_after[i] - line.x_before[i] = line.x_after[j] - line.x_before[j]

\* C22: on every committed non-final line with more than one word boundary
\* the per-boundary offsets add up to the slack target_width - line_width
\* within one unit, and a line committed as the last line (the final line of
\* the text, a line ended by a forced break) is not justified.
JustifiedOffsetsSumToSlack ==
  \A pl \in CommittedLines :
    With([p |-> pl[1], line |-> pl[2]], LAMBDA c :
      /\ (Justified(c.p, c.line) /\ Len(c.line.x_after) > c.line.from)
         => LastWordOffset(c.line) - Slack(c.p, c.line) \in -1 .. 1
      /\ (Request(c.p).justify /\ c.line.last_line) => MovedAsOne(c.line))

\* ------------------------------------------------------------------- C23
\* C23: a committed non-final line of a justified request that has at most
\* one word boundary is laid out as a left aligned line: the commit moves no
\* glyph and no caret of it.
SingleBoundaryLineStaysLeft ==
  \A pl \in CommittedLines :
    (/\ Request(pl[1]).justify
     /\ ~pl[2].last_line
     /\ Len(pl[2].word_boundary_) <= 1)
    => ShiftedBy(pl[2], 0)

\* ------------------------------------------------------------------- C24
\* The x of the target width of a request, in kFreeTypeUnit-ths of a pixel.
TargetX(p) == get_size(p).x * kFreeTypeUnit

\* The passes of the glyph loop over one word walk the shaped glyphs from the
\* last to the first, and the pen moves left by the advance of a glyph before
\* the glyph is registered and not after it.
WalkedBackwards(w) ==
  \A j \in 1 .. Len(w.passes) :
    /\ w.passes[j].idx = w.passes[j].glyph_count - j
    /\ w.passes[j].at = w.passes[j].from - w.passes[j].x_advance
    /\ w.passes[j].to = w.passes[j].at
    /\ w.passes[j].from = IF j = 1 THEN w.start.pos.x ELSE w.passes[j - 1].to

\* C24: in right-to-left layout with a target width W > 0 the pen starts at
\* x = W on the first line and after every line break, the glyphs of every
\* word are walked from the last to the first, the pen moves left by a
\* glyph's advance before the glyph is registered, so that the pen x never
\* increases within a line, and the first quad of a line is the one nearest
\* to W.
RightToLeftPen ==
  (/\ last_op.op = "GetBuffer"
   /\ layout_direction_ = kTextLayoutDirectionRTL
   /\ get_size(last_op.param).x > 0)
  => \A i \in Builds :
       With([p |-> last_op.param, words |-> last_op.attempts[i].words,
             lines |-> last_op.attempts[i].lines], LAMBDA b :
         /\ \A k \in 1 .. Len(b.words) :
              /\ k = 1 => b.words[k].before.pos.x = TargetX(b.p)
              /\ (k = 1 \/ b.words[k].start.pos.y # b.words[k].before.pos.y)
                 => b.words[k].start.pos.x = TargetX(b.p)
              /\ (k > 1 /\ b.words[k].start.pos.y = b.words[k].before.pos.y)
                 => b.words[k].start.pos.x <= b.words[k - 1].start.pos.x
              /\ ~b.words[k].truncated => WalkedBackwards(b.words[k])
              /\ \A j \in 1 .. Len(b.words[k].passes) :
                   b.words[k].passes[j].to <= b.words[k].passes[j].from
         /\ \A l \in 1 .. Len(b.lines) :
              \A n \in (b.lines[l].from + 1) .. Len(b.lines[l].x_before) :
                /\ b.lines[l].x_before[n] <= b.lines[l].x_before[b.lines[l].from + 1]
                /\ b.lines[l].x_before[n] <= get_size(b.p).x)

\* A text of several words was laid out right to left in two lines, the
\* first of them holding more than one quad.
BuiltRightToLeft ==
  /\ last_op.op = "GetBuffer" /\ last_op.ret \in BufferIds
  /\ layout_direction_ = kTextLayoutDirectionRTL
  /\ get_size(last_op.param).x > 0
  /\ \E i \in Builds :
       /\ Len(last_op.attempts[i].lines) = 2
       /\ last_op.attempts[i].lines[2].from > 1
       /\ \E k \in 1 .. Len(last_op.attempts[i].words) :
            Len(last_op.attempts[i].words[k].passes) > 1

\* ------------------------------------------------------------------- C25
\* C25: a text of n characters that was laid out completely with carets has
\* exactly n + 1 caret positions, in single-line and in multi-line mode.
CaretPerCharacterPlusOne ==
  (/\ last_op.op = "GetBuffer" /\ last_op.ret \in BufferIds
   /\ get_caret_info_flag(last_op.param))
  => Len(map_buffers_[last_op.param].caret_positions)
       = Len(Request(last_op.param).text) + 1

\* ------------------------------------------------------------------- C30
\* C30: the words of a build come from the text of the build.  After a build
\* the break classes the enumerator was handed are as many as the text has
\* bytes; every span a build enumerated lies inside the text, so that no byte
\* outside the text is shaped (and no read of one ends the process); and a
\* build of the empty text enumerates no word and emits no glyph.
WordsComeFromTheText ==
  (last_op.op = "GetBuffer" /\ Builds # {})
  => With([p |-> last_op.param, text |-> Request(last_op.param).text], LAMBDA b :
       /\ Len(wordbreak_info_) = Len(b.text)
       /\ ~crashed
       /\ \A i \in Builds : \A k \in 1 .. Len(last_op.attempts[i].words) :
            last_op.attempts[i].words[k].index + last_op.attempts[i].words[k].length
              <= Len(b.text)
       /\ (b.text = <<>> /\ last_op.ret \in BufferIds)
          => /\ map_buffers_[b.p].code_points = <<>>
             /\ \A i \in Builds : last_op.attempts[i].words = <<>>)

\* ------------------------------------------------------------------- C31
\* C31: the shared shaping buffer is empty whenever a public operation has
\* returned, so that the next LayoutText shapes the text it is passed and
\* nothing else: a texture holds the glyphs of its own text only.
ShapingBufferEmptyBetweenOperations ==
  /\ (~crashed => harfbuzz_buf_ = <<>>)
  /\ \A t \in TextureTexts :
       map_textures_[t] # NoTexture
       => map_textures_[t] = CopyGlyphs(Shape(TextOf(t)), 1, <<>>)
====
